---- MODULE Spec2Model ----
(***************************************************************************)
(* Weekly Grocery Management System: the storage engine of database.py.    *)
(*                                                                         *)
(* The committed SQLite database is the record db, one field per table.    *)
(* Every engine function opens its own connection (get_connection) and     *)
(* never issues PRAGMA foreign_keys = ON, so the FOREIGN KEY clauses of    *)
(* the schema are declarations only: no insert is checked against its      *)
(* parent table and no delete cascades or is restricted.                   *)
(* Money is counted in whole units (the example prices 3.00 and 5.00).     *)
(***************************************************************************)
EXTENDS Integers, Sequences, FiniteSets, TLC

VARIABLES db, call, pc, local, tx, wlock, added, today, session_state

vars == <<db, call, pc, local, tx, wlock, added, today, session_state>>

---------------------------------------------------------------------------
(* Bounds of the model *)

MaxOrders == 2
MaxDetails == 2
MaxLists == 1
MaxItems == 2
MaxQuantity == 2
MaxRowQuantity == 2
MaxProducts == 3
MaxDay == 2
MaxCategories == 6
MaxLimit == 2
MaxUsers == 3
MaxSeeds == 2
MaxInventory == 2

Sessions == {1, 2}
ProductIds == {1, 2}
CategoryIds == {1}
Prices == {3, 5}
OrderIds == 1..MaxOrders
ListIds == 1..MaxLists
Quantities == 1..MaxQuantity

\* add_order_detail takes any integer as its quantity
AnyQuantities == -1..MaxQuantity

---------------------------------------------------------------------------
(* Helpers on functions and sequences *)

Without(f, k) == [x \in (DOMAIN f) \ {k} |-> f[x]]

With(f, k, v) == [x \in (DOMAIN f) \cup {k} |-> IF x = k THEN v ELSE f[x]]

RECURSIVE SumSubtotals(_, _, _)
\* SELECT SUM(subtotal) FROM order_details WHERE order_id = o, over rows 1..n
SumSubtotals(details, o, n) ==
    IF n = 0 THEN 0
    ELSE SumSubtotals(details, o, n - 1)
         + (IF details[n].order_id = o THEN details[n].subtotal ELSE 0)

DetailsOf(D, o) == {i \in 1..Len(D.order_details) : D.order_details[i].order_id = o}

ItemsOf(D, l) ==
    {i \in 1..Len(D.shopping_list_items) : D.shopping_list_items[i].list_id = l}

ItemsFor(D, l, p) == {i \in ItemsOf(D, l) : D.shopping_list_items[i].product_id = p}

---------------------------------------------------------------------------
(* Credentials *)

\* hashlib.sha256(password.encode()).hexdigest(): the digest is written as
\* the tagged password; no two passwords of the model share a digest
hash_password(password) == <<"sha256", password>>

verify_password(password, hashed) == hash_password(password) = hashed

---------------------------------------------------------------------------
(* The engine's functions, as functions of the database they run against.  *)
(* Each yields the database after the call, the outcome and the value      *)
(* returned.                                                               *)

Outcome(D, result, rv) == [db |-> D, result |-> result, rv |-> rv]

\* INSERT INTO orders (user_id, status) VALUES (?, 'pending'); the id comes
\* from the AUTOINCREMENT counter, order_date from DEFAULT CURRENT_TIMESTAMP
\* (its day) and total_amount from DEFAULT 0
create_order(D, u) ==
    LET id == D.seq_orders + 1
    IN  Outcome([D EXCEPT !.orders = With(@, id, [user_id |-> u,
                                                   order_date |-> today,
                                                   total_amount |-> 0,
                                                   status |-> "pending"]),
                          !.seq_orders = id],
                "ok", id)

\* INSERT INTO order_details (...) with subtotal = unit_price * quantity
InsertDetail(D, o, p, q, price) ==
    [D EXCEPT !.order_details = Append(@, [order_id |-> o,
                                           product_id |-> p,
                                           quantity |-> q,
                                           unit_price |-> price,
                                           subtotal |-> price * q])]

\* UPDATE orders SET total_amount = (SELECT SUM(subtotal) ...) WHERE order_id = o
UpdateTotal(D, o) ==
    IF o \in DOMAIN D.orders
    THEN [D EXCEPT !.orders[o].total_amount =
                       SumSubtotals(D.order_details, o, Len(D.order_details))]
    ELSE D

add_order_detail_unchecked(D, o, p, q) ==
    LET price == IF p \in DOMAIN D.products THEN D.products[p].unit_price ELSE 0
        D1 == InsertDetail(D, o, p, q, price)
    IN  Outcome(UpdateTotal(D1, o), "ok", Len(D1.order_details))

add_order_detail(D, o, p, q) ==
    IF p \notin DOMAIN D.products
    THEN Outcome(D, "NotFound", 0)
    ELSE LET D1 == InsertDetail(D, o, p, q, D.products[p].unit_price)
         IN  Outcome(UpdateTotal(D1, o), "ok", Len(D1.order_details))

complete_order_toggle(D, o) ==
    IF o \in DOMAIN D.orders
    THEN Outcome([D EXCEPT !.orders[o].status =
                               IF @ = "pending" THEN "completed" ELSE "pending"],
                 "ok", 1)
    ELSE Outcome(D, "ok", 0)

\* UPDATE orders SET status = 'completed' WHERE order_id = o
complete_order(D, o) ==
    IF o \in DOMAIN D.orders
    THEN Outcome([D EXCEPT !.orders[o].status = "completed"], "ok", 1)
    ELSE Outcome(D, "ok", 0)

\* DELETE FROM orders WHERE order_id = o: the order row only
delete_order(D, o) ==
    IF o \in DOMAIN D.orders
    THEN Outcome([D EXCEPT !.orders = Without(@, o)], "ok", 1)
    ELSE Outcome(D, "ok", 0)

update_product_repricing(D, p, price, c) ==
    IF p \in DOMAIN D.products
    THEN Outcome([D EXCEPT !.products[p] = [unit_price |-> price, category_id |-> c],
                           !.order_details =
                               [i \in DOMAIN @ |->
                                   IF @[i].product_id = p
                                   THEN [@[i] EXCEPT
                                            !.unit_price = price,
                                            !.subtotal = price * D.order_details[i].quantity]
                                   ELSE @[i]]],
                 "ok", 1)
    ELSE Outcome(D, "ok", 0)

\* UPDATE products SET category_id = ?, unit_price = ? ... WHERE product_id = p
update_product(D, p, price, c) ==
    IF p \in DOMAIN D.products
    THEN Outcome([D EXCEPT !.products[p] = [unit_price |-> price, category_id |-> c]],
                 "ok", 1)
    ELSE Outcome(D, "ok", 0)

\* INSERT INTO products (...): the id comes from the AUTOINCREMENT counter and
\* the category_id is stored as given
create_product(D, c, price) ==
    LET id == D.seq_products + 1
    IN  Outcome([D EXCEPT !.products = With(@, id, [unit_price |-> price,
                                                     category_id |-> c]),
                          !.seq_products = id],
                "ok", id)

\* DELETE FROM products WHERE product_id = p: the product row only
delete_product(D, p) ==
    IF p \in DOMAIN D.products
    THEN Outcome([D EXCEPT !.products = Without(@, p)], "ok", 1)
    ELSE Outcome(D, "ok", 0)

\* SELECT od.* ... FROM order_details od JOIN products p JOIN categories c
\* WHERE od.order_id = o: a line item whose product row, or whose product's
\* category row, is missing joins nothing
get_order_details(D, o) ==
    {i \in DetailsOf(D, o) :
        /\ D.order_details[i].product_id \in DOMAIN D.products
        /\ D.products[D.order_details[i].product_id].category_id \in DOMAIN D.categories}

\* A listing of the orders of every user
get_user_orders_of_anyone(D, u) ==
    [o \in DOMAIN D.orders |-> D.orders[o]]

\* SELECT * FROM orders WHERE user_id = ? ORDER BY order_date DESC (the rows
\* by order id)
get_user_orders(D, u) ==
    [o \in {o \in DOMAIN D.orders : D.orders[o].user_id = u} |-> D.orders[o]]

\* SELECT COUNT(*) FROM products WHERE category_id = c
LinkedProducts(D, c) == {p \in DOMAIN D.products : D.products[p].category_id = c}

delete_category_unguarded(D, c) ==
    IF c \in DOMAIN D.categories
    THEN Outcome([D EXCEPT !.categories = Without(@, c)], "ok", 1)
    ELSE Outcome(D, "ok", 0)

delete_category(D, c) ==
    IF LinkedProducts(D, c) # {}
    THEN Outcome(D, "Conflict", 0)
    ELSE IF c \in DOMAIN D.categories
    THEN Outcome([D EXCEPT !.categories = Without(@, c)], "ok", 1)
    ELSE Outcome(D, "ok", 0)

\* Categories whose name is n
CategoriesNamed(D, n) == {c \in DOMAIN D.categories : D.categories[c].category_name = n}

\* An INSERT that takes any name
create_category_unchecked(D, n) ==
    Outcome([D EXCEPT !.categories = With(@, D.seq_categories + 1, [category_name |-> n]),
                      !.seq_categories = @ + 1],
            "ok", D.seq_categories + 1)

\* INSERT INTO categories (category_name, description): category_name is
\* UNIQUE, the IntegrityError of a duplicate is raised as ValueError
create_category(D, n) ==
    IF CategoriesNamed(D, n) # {}
    THEN Outcome(D, "Conflict", 0)
    ELSE Outcome([D EXCEPT !.categories = With(@, D.seq_categories + 1, [category_name |-> n]),
                           !.seq_categories = @ + 1],
                 "ok", D.seq_categories + 1)

\* UPDATE categories SET category_name = ? WHERE category_id = ?; returns
\* cursor.rowcount > 0.  A name another category carries violates UNIQUE:
\* the sqlite3.IntegrityError leaves the function before conn.commit()
update_category(D, c, n) ==
    IF c \notin DOMAIN D.categories
    THEN Outcome(D, "ok", 0)
    ELSE IF CategoriesNamed(D, n) \ {c} # {}
    THEN Outcome(D, "StorageFailure", 0)
    ELSE Outcome([D EXCEPT !.categories[c].category_name = n], "ok", 1)

---------------------------------------------------------------------------
(* Users *)

\* INSERT INTO users (username, email, password_hash): username and email
\* are UNIQUE, the IntegrityError of a duplicate is raised as ValueError
create_user(D, username, email, password) ==
    IF \E u \in DOMAIN D.users : \/ D.users[u].username = username
                                 \/ D.users[u].email = email
    THEN Outcome(D, "Conflict", 0)
    ELSE Outcome([D EXCEPT !.users = With(@, D.seq_users + 1,
                                          [username |-> username, email |-> email,
                                           password_hash |-> hash_password(password)]),
                           !.seq_users = @ + 1],
                 "ok", D.seq_users + 1)

\* SELECT * FROM users WHERE username = ?; fetchone(): the user's id, 0 for
\* None
get_user_by_username(D, username) ==
    IF \E u \in DOMAIN D.users : D.users[u].username = username
    THEN CHOOSE u \in DOMAIN D.users : D.users[u].username = username
    ELSE 0

\* A login that looks at the username only
authenticate_user_by_name(D, username, password) ==
    LET user == get_user_by_username(D, username)
    IN  IF user # 0 THEN Outcome(D, "ok", user) ELSE Outcome(D, "AuthFailure", 0)

\* if user and verify_password(password, user['password_hash']): return
\* user; return None
authenticate_user(D, username, password) ==
    LET user == get_user_by_username(D, username)
    IN  IF user # 0 /\ verify_password(password, D.users[user].password_hash)
        THEN Outcome(D, "ok", user)
        ELSE Outcome(D, "AuthFailure", 0)

---------------------------------------------------------------------------
(* Sample data *)

\* The categories, the products (with the category ids written in the
\* source) and the user that insert_sample_data inserts, cut down to one
\* category and two products
SampleCategories == <<"Dairy">>
SampleProducts == <<[unit_price |-> 3, category_id |-> 1],
                    [unit_price |-> 5, category_id |-> 1]>>
SampleUser == [username |-> "demo_user", email |-> "demo@example.com",
               password |-> "password123"]

\* cursor.executemany(INSERT INTO categories ...), from row k on
RECURSIVE InsertSampleCategories(_, _)
InsertSampleCategories(D, k) ==
    IF k > Len(SampleCategories)
    THEN D
    ELSE InsertSampleCategories(create_category(D, SampleCategories[k]).db, k + 1)

\* cursor.executemany(INSERT INTO products ...), from row k on
RECURSIVE InsertSampleProducts(_, _)
InsertSampleProducts(D, k) ==
    IF k > Len(SampleProducts)
    THEN D
    ELSE InsertSampleProducts(create_product(D, SampleProducts[k].category_id,
                                             SampleProducts[k].unit_price).db, k + 1)

\* A seeding that commits the catalog before it inserts the user
insert_sample_data_catalog_first(D) ==
    IF DOMAIN D.categories # {}
    THEN Outcome(D, "ok", 0)
    ELSE LET catalog == InsertSampleProducts(InsertSampleCategories(D, 1), 1)
             user == create_user(catalog, SampleUser.username, SampleUser.email,
                                 SampleUser.password)
         IN  IF user.result = "ok"
             THEN Outcome(user.db, "ok", 0)
             ELSE Outcome(catalog, "StorageFailure", 0)

\* insert_sample_data: returns at once when SELECT COUNT(*) FROM categories
\* is positive; else inserts the categories, the products and the user on
\* one connection and commits once at the end.  The sqlite3.IntegrityError
\* of a taken username or email leaves the function before conn.commit()
\* and the connection is closed with nothing committed
insert_sample_data(D) ==
    IF DOMAIN D.categories # {}
    THEN Outcome(D, "ok", 0)
    ELSE LET catalog == InsertSampleProducts(InsertSampleCategories(D, 1), 1)
             user == create_user(catalog, SampleUser.username, SampleUser.email,
                                 SampleUser.password)
         IN  IF user.result = "ok"
             THEN Outcome(user.db, "ok", 0)
             ELSE Outcome(D, "StorageFailure", 0)

---------------------------------------------------------------------------
(* Shopping lists *)

\* INSERT INTO shopping_lists (user_id, list_name); is_active DEFAULT 1
create_shopping_list(D, u) ==
    LET id == D.seq_lists + 1
    IN  Outcome([D EXCEPT !.shopping_lists = With(@, id, [user_id |-> u,
                                                           is_active |-> TRUE]),
                          !.seq_lists = id],
                "ok", id)

\* UPDATE shopping_list_items SET quantity = quantity + ?
\* WHERE list_id = ? AND product_id = ?
IncrementItems(D, l, p, q) ==
    [D EXCEPT !.shopping_list_items =
        [i \in DOMAIN @ |->
            IF @[i].list_id = l /\ @[i].product_id = p
            THEN [@[i] EXCEPT !.quantity = @ + q]
            ELSE @[i]]]

\* INSERT INTO shopping_list_items (list_id, product_id, quantity);
\* is_purchased DEFAULT 0
InsertItem(D, l, p, q) ==
    [D EXCEPT !.shopping_list_items = Append(@, [list_id |-> l,
                                                 product_id |-> p,
                                                 quantity |-> q,
                                                 is_purchased |-> FALSE])]

WriteItem_always_insert(D, existing, l, p, q) == InsertItem(D, l, p, q)

\* The write add_item_to_shopping_list chooses once its SELECT found a row
\* (existing) or none
WriteItem(D, existing, l, p, q) ==
    IF existing THEN IncrementItems(D, l, p, q) ELSE InsertItem(D, l, p, q)

add_item_to_shopping_list(D, l, p, q) ==
    Outcome(WriteItem(D, ItemsFor(D, l, p) # {}, l, p, q), "ok", 0)

\* An UPDATE that marks the item purchased
toggle_shopping_list_item_mark(D, i) ==
    IF i \in DOMAIN D.shopping_list_items
    THEN Outcome([D EXCEPT !.shopping_list_items[i].is_purchased = TRUE], "ok", 1)
    ELSE Outcome(D, "ok", 0)

toggle_shopping_list_item(D, i) ==
    IF i \in DOMAIN D.shopping_list_items
    THEN Outcome([D EXCEPT !.shopping_list_items[i].is_purchased = ~@], "ok", 1)
    ELSE Outcome(D, "ok", 0)

\* DELETE FROM shopping_lists WHERE list_id = l: the list row only
delete_shopping_list(D, l) ==
    IF l \in DOMAIN D.shopping_lists
    THEN Outcome([D EXCEPT !.shopping_lists = Without(@, l)], "ok", 1)
    ELSE Outcome(D, "ok", 0)

\* SELECT sl.*, COUNT(sli.item_id) as total_items, SUM(CASE WHEN
\* sli.is_purchased = 1 ...) as purchased_items FROM shopping_lists sl LEFT
\* JOIN shopping_list_items sli WHERE sl.user_id = ? GROUP BY sl.list_id (the
\* rows by list id)
get_user_shopping_lists(D, u) ==
    [l \in {l \in DOMAIN D.shopping_lists : D.shopping_lists[l].user_id = u} |->
        [user_id |-> D.shopping_lists[l].user_id,
         is_active |-> D.shopping_lists[l].is_active,
         total_items |-> Cardinality(ItemsOf(D, l)),
         purchased_items |-> Cardinality({i \in ItemsOf(D, l) :
                                             D.shopping_list_items[i].is_purchased})]]

\* The rows of sli JOIN products JOIN categories for list l: an item whose
\* product row, or whose product's category row, is missing joins nothing
JoinedItems(D, l) ==
    {i \in ItemsOf(D, l) :
        /\ D.shopping_list_items[i].product_id \in DOMAIN D.products
        /\ D.products[D.shopping_list_items[i].product_id].category_id
               \in DOMAIN D.categories}

\* ORDER BY c.category_name, p.product_name (ids stand for the names; rows
\* that tie come in item_id order)
ItemBefore(D, i, j) ==
    LET a == D.shopping_list_items[i].product_id
        b == D.shopping_list_items[j].product_id
        ca == D.products[a].category_id
        cb == D.products[b].category_id
    IN  \/ ca < cb
        \/ ca = cb /\ a < b
        \/ ca = cb /\ a = b /\ i < j

RECURSIVE SortedItems(_, _)
SortedItems(D, S) ==
    IF S = {} THEN << >>
    ELSE LET m == CHOOSE i \in S : \A j \in S \ {i} : ItemBefore(D, i, j)
         IN  <<[item_id |-> m,
                product_id |-> D.shopping_list_items[m].product_id,
                quantity |-> D.shopping_list_items[m].quantity]>>
             \o SortedItems(D, S \ {m})

get_shopping_list_items(D, l) == SortedItems(D, JoinedItems(D, l))

ActiveList(D, l) == l \in DOMAIN D.shopping_lists /\ D.shopping_lists[l].is_active

\* UPDATE shopping_lists SET is_active = 0 WHERE list_id = l
DeactivateList(D, l) ==
    IF l \in DOMAIN D.shopping_lists
    THEN [D EXCEPT !.shopping_lists[l].is_active = FALSE]
    ELSE D

RECURSIVE AddEach(_, _, _, _)
\* for item in items: add_order_detail(order_id, item['product_id'],
\* item['quantity']), from the k-th item on; an exception ends the loop
AddEach(D, o, items, k) ==
    IF k > Len(items) THEN Outcome(D, "ok", o)
    ELSE LET r == add_order_detail(D, o, items[k].product_id, items[k].quantity)
         IN  IF r.result # "ok" THEN Outcome(r.db, r.result, o)
             ELSE AddEach(r.db, o, items, k + 1)

convert_without_empty_check(D, l, u) ==
    LET items == get_shopping_list_items(D, l)
        created == create_order(D, u)
        filled == AddEach(created.db, created.rv, items, 1)
    IN  IF filled.result # "ok" THEN filled
        ELSE Outcome(DeactivateList(complete_order(filled.db, created.rv).db, l),
                     "ok", created.rv)

convert_shopping_list_to_order(D, l, u) ==
    LET items == get_shopping_list_items(D, l)
    IN  IF items = << >> THEN Outcome(D, "EmptyList", 0)
        ELSE LET created == create_order(D, u)
                 filled == AddEach(created.db, created.rv, items, 1)
             IN  IF filled.result # "ok" THEN filled
                 ELSE Outcome(DeactivateList(complete_order(filled.db, created.rv).db, l),
                              "ok", created.rv)

---------------------------------------------------------------------------
(* Analytics: queries over the completed orders of one user.  Dates are    *)
(* days counted from the day the database was created; order_date holds a  *)
(* timestamp 'YYYY-MM-DD HH:MM:SS' of its day, the bounds it is compared    *)
(* with are dates 'YYYY-MM-DD', and SQLite compares the two as text.        *)

\* The place of a timestamp of day d in text order: after the date of day d
\* (which is its prefix) and before the date of day d + 1
StampKey(d) == 2 * d + 1

\* The place of the date 'YYYY-MM-DD' of day d in text order
DateKey(d) == 2 * d

\* strftime('%Y-%m', order_date), in a calendar of 30-day months
MonthOf(d) == d \div 30

\* WHERE o.user_id = u AND o.status = 'completed'
CompletedOrders(D, u) ==
    {o \in DOMAIN D.orders : D.orders[o].user_id = u /\ D.orders[o].status = "completed"}

RECURSIVE SumTotals(_, _)
\* SUM(total_amount) over the orders S
SumTotals(D, S) ==
    IF S = {} THEN 0
    ELSE LET o == CHOOSE x \in S : TRUE
         IN  D.orders[o].total_amount + SumTotals(D, S \ {o})

\* The rows of orders JOIN order_details JOIN products JOIN categories for
\* the completed orders of u
PurchaseLines(D, u) ==
    {i \in 1..Len(D.order_details) :
        /\ D.order_details[i].order_id \in CompletedOrders(D, u)
        /\ D.order_details[i].product_id \in DOMAIN D.products
        /\ D.products[D.order_details[i].product_id].category_id \in DOMAIN D.categories}

RECURSIVE SumLines(_, _, _)
\* SUM of column col over the order_details rows S
SumLines(D, S, col) ==
    IF S = {} THEN 0
    ELSE LET i == CHOOSE x \in S : TRUE
         IN  D.order_details[i][col] + SumLines(D, S \ {i}, col)

\* SUM(total_amount), COUNT(*); the SUM of no row (NULL) is written 0
get_total_spending(D, u) ==
    [total_spent |-> SumTotals(D, CompletedOrders(D, u)),
     total_orders |-> Cardinality(CompletedOrders(D, u))]

\* GROUP BY month ORDER BY month (the rows as a set)
get_monthly_spending(D, u) ==
    {[month |-> m,
      total_spent |-> SumTotals(D, {o \in CompletedOrders(D, u) :
                                      MonthOf(D.orders[o].order_date) = m}),
      order_count |-> Cardinality({o \in CompletedOrders(D, u) :
                                      MonthOf(D.orders[o].order_date) = m})] :
        m \in {MonthOf(D.orders[o].order_date) : o \in CompletedOrders(D, u)}}

\* WHERE order_date >= date('now', '-7 days') GROUP BY day (the rows as a set)
get_weekly_spending(D, u) ==
    LET recent == {o \in CompletedOrders(D, u) :
                      StampKey(D.orders[o].order_date) >= DateKey(today - 7)}
    IN  {[day |-> d,
          daily_total |-> SumTotals(D, {o \in recent : D.orders[o].order_date = d})] :
            d \in {D.orders[o].order_date : o \in recent}}

\* GROUP BY c.category_id (the rows as a set; ORDER BY total_spent DESC)
get_spending_by_category(D, u) ==
    {[category_id |-> c,
      total_spent |-> SumLines(D, {i \in PurchaseLines(D, u) :
                                     D.products[D.order_details[i].product_id].category_id = c},
                               "subtotal")] :
        c \in {D.products[D.order_details[i].product_id].category_id :
                  i \in PurchaseLines(D, u)}}

\* start_date=None, end_date=None: no bound
NoDate == -1

\* The rows of PurchaseLines whose order passes the bounds the call was given:
\* AND o.order_date >= start_date, AND o.order_date <= end_date
PurchaseLinesBetween(D, u, start, end) ==
    {i \in PurchaseLines(D, u) :
        LET stamp == StampKey(D.orders[D.order_details[i].order_id].order_date)
        IN  /\ start # NoDate => stamp >= DateKey(start)
            /\ end # NoDate => stamp <= DateKey(end)}

\* get_spending_by_category(user_id, start_date, end_date) with the dates the
\* reports page passes (date.isoformat())
get_spending_by_category_between(D, u, start, end) ==
    {[category_id |-> c,
      total_spent |-> SumLines(D, {i \in PurchaseLinesBetween(D, u, start, end) :
                                     D.products[D.order_details[i].product_id].category_id = c},
                               "subtotal")] :
        c \in {D.products[D.order_details[i].product_id].category_id :
                  i \in PurchaseLinesBetween(D, u, start, end)}}

\* GROUP BY p.product_id (the rows as a set; ORDER BY total_quantity DESC,
\* the LIMIT being no less than the number of products)
get_most_purchased_products(D, u) ==
    {[product_id |-> p,
      total_quantity |-> SumLines(D, {i \in PurchaseLines(D, u) :
                                        D.order_details[i].product_id = p},
                                  "quantity"),
      order_count |-> Cardinality({D.order_details[i].order_id :
                                      i \in {j \in PurchaseLines(D, u) :
                                                D.order_details[j].product_id = p}})] :
        p \in {D.order_details[i].product_id : i \in PurchaseLines(D, u)}}

---------------------------------------------------------------------------
(* Suggestions *)

\* UserCategories: ... LIMIT 5
TopCategoryLimit == 5

\* RecentProducts: o.order_date >= date('now', '-30 days')
RecentDays == 30

\* The rows of orders JOIN order_details JOIN products WHERE o.user_id = u
UserCategoryLines(D, u) ==
    {i \in 1..Len(D.order_details) :
        /\ D.order_details[i].order_id \in DOMAIN D.orders
        /\ D.orders[D.order_details[i].order_id].user_id = u
        /\ D.order_details[i].product_id \in DOMAIN D.products}

CategoryOfLine(D, i) == D.products[D.order_details[i].product_id].category_id

\* COUNT(*) as frequency ... GROUP BY p.category_id
Frequency(D, u, c) ==
    Cardinality({i \in UserCategoryLines(D, u) : CategoryOfLine(D, i) = c})

\* ORDER BY frequency DESC LIMIT 5: every set of categories the query may
\* keep (categories of equal frequency come in no stated order)
UserCategories(D, u) ==
    LET cats == {CategoryOfLine(D, i) : i \in UserCategoryLines(D, u)}
        frequency == [c \in cats |-> Frequency(D, u, c)]
        n == IF Cardinality(cats) < TopCategoryLimit
             THEN Cardinality(cats) ELSE TopCategoryLimit
    IN  {T \in SUBSET cats :
            /\ Cardinality(T) = n
            /\ \A c \in T, e \in cats \ T : frequency[c] >= frequency[e]}

\* SELECT DISTINCT od.product_id FROM orders o JOIN order_details od
\* WHERE o.user_id = u AND o.order_date >= date('now', '-30 days')
RecentProducts(D, u) ==
    {D.order_details[i].product_id :
        i \in {j \in 1..Len(D.order_details) :
                  /\ D.order_details[j].order_id \in DOMAIN D.orders
                  /\ D.orders[D.order_details[j].order_id].user_id = u
                  /\ StampKey(D.orders[D.order_details[j].order_id].order_date)
                         >= DateKey(today - RecentDays)}}

\* FROM products p JOIN categories c WHERE p.category_id IN UserCategories
\* AND p.product_id NOT IN RecentProducts, for the categories T kept
SuggestionPool(D, u, T) ==
    LET recent == RecentProducts(D, u)
    IN  {p \in DOMAIN D.products :
            /\ D.products[p].category_id \in DOMAIN D.categories
            /\ D.products[p].category_id \in T
            /\ p \notin recent}

\* ORDER BY RANDOM() LIMIT limit: every set of products the call may return
get_suggested_products(D, u, limit) ==
    UNION {LET pool == SuggestionPool(D, u, T)
               n == IF Cardinality(pool) < limit THEN Cardinality(pool) ELSE limit
           IN  {R \in SUBSET pool : Cardinality(R) = n} :
           T \in UserCategories(D, u)}

---------------------------------------------------------------------------
(* State *)

\* The session's logged-in user: st.session_state.user_id, which the pages
\* pass as user_id
UserOf(s) == s

\* orders.status of order o, "none" when there is no such order
StatusOf(D, o) == IF o \in DOMAIN D.orders THEN D.orders[o].status ELSE "none"

\* The last call that returned: its function, the order, list, item or
\* product id it was given, its outcome and its return value; for
\* complete_order also the status the order had when the call was made
NoCall == [session |-> 0, op |-> "none", id |-> 0, result |-> "none", rv |-> 0,
           was |-> "none"]

Called(s, op, id, out) ==
    [session |-> s, op |-> op, id |-> id, result |-> out.result, rv |-> out.rv,
     was |-> IF op = "complete_order" THEN StatusOf(db, id) ELSE "none"]

\* A session's running call, or the last one it ran in steps: the function
\* called (op) with its list or order id, the order, product and quantity
\* of the add_order_detail at hand, the values the call has read so far
\* (price, existing, items, the index i of the item at hand), whether the
\* list was active when the call began, the outcome once returned, and the
\* number of connections the session holds open (conns)
NoLocal == [op |-> "none", id |-> 0, order_id |-> 0, product |-> 0, quantity |-> 0,
            price |-> 0, existing |-> FALSE, items |-> << >>, i |-> 0,
            sawActive |-> FALSE, result |-> "none", conns |-> 0]

\* A browser session before login: st.session_state.logged_in = False,
\* user_id = None (0), current_order_id = None (0)
NoSession == [logged_in |-> FALSE, user_id |-> 0, current_order_id |-> 0]

\* init_database followed by insert_sample_data: one category, two of its
\* products, the demo user, no order and no shopping list
InitDb ==
    [categories |-> [c \in {1} |-> [category_name |-> "Dairy"]],
     users |-> [u \in {1} |-> [username |-> "demo_user",
                                email |-> "demo@example.com",
                                password_hash |-> hash_password("password123")]],
     products |-> [p \in ProductIds |->
                      [unit_price |-> IF p = 1 THEN 3 ELSE 5, category_id |-> 1]],
     orders |-> << >>,
     order_details |-> << >>,
     shopping_lists |-> << >>,
     shopping_list_items |-> << >>,
     seq_orders |-> 0,
     seq_lists |-> 0,
     seq_products |-> 2,
     seq_categories |-> 1,
     seq_users |-> 1]

Init ==
    /\ db = InitDb
    /\ call = NoCall
    /\ pc = [s \in Sessions |-> "idle"]
    /\ local = [s \in Sessions |-> NoLocal]
    /\ tx = << >>
    /\ wlock = 0
    /\ added = [l \in ListIds |-> [p \in ProductIds |-> [calls |-> 0, sum |-> 0]]]
    /\ session_state = [s \in Sessions |-> NoSession]
    /\ today = 0

\* A call that runs from its first statement to its return with no other
\* session in between
Returns(s, op, id, out) ==
    /\ pc[s] = "idle"
    /\ wlock = 0
    /\ db' = out.db
    /\ call' = Called(s, op, id, out)
    /\ UNCHANGED <<pc, local, tx, wlock>>

---------------------------------------------------------------------------
(* Order engine, one caller *)

CreateOrder(s) ==
    /\ db.seq_orders < MaxOrders
    /\ Returns(s, "create_order", 0, create_order(db, UserOf(s)))
    /\ UNCHANGED <<added, today, session_state>>

AddOrderDetail(s) ==
    \E o \in OrderIds, p \in ProductIds, q \in Quantities :
        /\ Len(db.order_details) < MaxDetails
        /\ Returns(s, "add_order_detail", o, add_order_detail(db, o, p, q))
        /\ UNCHANGED <<added, today, session_state>>

CompleteOrder(s) ==
    \E o \in OrderIds :
        /\ Returns(s, "complete_order", o, complete_order(db, o))
        /\ UNCHANGED <<added, today, session_state>>

DeleteOrder(s) ==
    \E o \in OrderIds :
        /\ Returns(s, "delete_order", o, delete_order(db, o))
        /\ UNCHANGED <<added, today, session_state>>

UpdateProduct(s) ==
    \E p \in ProductIds \cup DOMAIN db.products, price \in Prices, c \in CategoryIds :
        /\ Returns(s, "update_product", p, update_product(db, p, price, c))
        /\ UNCHANGED <<added, today, session_state>>

DeleteProduct(s) ==
    \E p \in ProductIds \cup DOMAIN db.products :
        /\ Returns(s, "delete_product", p, delete_product(db, p))
        /\ UNCHANGED <<added, today, session_state>>

Next ==
    \/ CreateOrder(1)
    \/ AddOrderDetail(1)
    \/ CompleteOrder(1)
    \/ DeleteOrder(1)
    \/ UpdateProduct(1)
    \/ DeleteProduct(1)

Spec == Init /\ [][Next]_vars

\* add_order_detail with whatever quantity the caller passes
AddOrderDetailAnyQuantity(s) ==
    \E o \in OrderIds, p \in ProductIds, q \in AnyQuantities :
        /\ Len(db.order_details) < MaxDetails
        /\ Returns(s, "add_order_detail", o, add_order_detail(db, o, p, q))
        /\ UNCHANGED <<added, today, session_state>>

NextAnyQuantity ==
    \/ CreateOrder(1)
    \/ AddOrderDetailAnyQuantity(1)
    \/ CompleteOrder(1)
    \/ DeleteOrder(1)

SpecAnyQuantity == Init /\ [][NextAnyQuantity]_vars

---------------------------------------------------------------------------
(* Reports over orders placed on different days *)

\* A day passes
Tick ==
    /\ today < MaxDay
    /\ today' = today + 1
    /\ UNCHANGED <<db, call, pc, local, tx, wlock, added, session_state>>

\* The reports page: get_spending_by_category(user_id, start_date.isoformat(),
\* end_date.isoformat()); the call record keeps the two dates as its id
SpendingByCategory(s) ==
    \E start \in 0..MaxDay, end \in 0..MaxDay :
        /\ start <= end
        /\ Returns(s, "get_spending_by_category", <<start, end>>,
                   Outcome(db, "ok",
                           get_spending_by_category_between(db, UserOf(s), start, end)))
        /\ UNCHANGED <<added, today, session_state>>

NextReports ==
    \/ Tick
    \/ CreateOrder(1)
    \/ AddOrderDetail(1)
    \/ CompleteOrder(1)
    \/ SpendingByCategory(1)

SpecReports == Init /\ [][NextReports]_vars

---------------------------------------------------------------------------
(* Suggestions over a purchase history.  The history is drawn at the start: *)
(* MaxCategories categories of two products each, and two completed orders  *)
(* of user 1, the first placed on day 0 and the second on day 0 or today;   *)
(* of each category the user bought nothing, or its first product once in   *)
(* each order, or its first product three times in the first order.         *)

Patterns == {"none", "twice", "thrice"}

SuggestLine(o, p) ==
    [order_id |-> o, product_id |-> p, quantity |-> 1, unit_price |-> 3, subtotal |-> 3]

RECURSIVE SuggestLines(_, _)
\* The line items of categories 1..c of the history
SuggestLines(pattern, c) ==
    IF c = 0 THEN << >>
    ELSE SuggestLines(pattern, c - 1)
         \o (IF pattern[c] = "twice"
             THEN <<SuggestLine(1, 2 * c - 1), SuggestLine(2, 2 * c - 1)>>
             ELSE IF pattern[c] = "thrice"
             THEN <<SuggestLine(1, 2 * c - 1), SuggestLine(1, 2 * c - 1),
                    SuggestLine(1, 2 * c - 1)>>
             ELSE << >>)

SuggestDb(pattern, day2) ==
    LET lines == SuggestLines(pattern, MaxCategories)
    IN  [InitDb EXCEPT
            !.categories = [c \in 1..MaxCategories |-> [category_name |-> <<"category", c>>]],
            !.products = [p \in 1..(2 * MaxCategories) |->
                             [unit_price |-> 3, category_id |-> (p + 1) \div 2]],
            !.orders = [o \in 1..2 |->
                           [user_id |-> 1,
                            order_date |-> IF o = 1 THEN 0 ELSE day2,
                            total_amount |-> SumSubtotals(lines, o, Len(lines)),
                            status |-> "completed"]],
            !.order_details = lines,
            !.seq_orders = 2,
            !.seq_products = 2 * MaxCategories,
            !.seq_categories = MaxCategories]

InitSuggest ==
    /\ today = RecentDays + MaxDay
    /\ \E pattern \in [1..MaxCategories -> Patterns], day2 \in {0, today} :
           db = SuggestDb(pattern, day2)
    /\ call = NoCall
    /\ pc = [s \in Sessions |-> "idle"]
    /\ local = [s \in Sessions |-> NoLocal]
    /\ tx = << >>
    /\ wlock = 0
    /\ added = [l \in ListIds |-> [p \in ProductIds |-> [calls |-> 0, sum |-> 0]]]
    /\ session_state = [s \in Sessions |-> NoSession]

\* The dashboard: db.get_suggested_products(user_id, limit); the call record
\* keeps the limit as its id and the products returned as its value
GetSuggestedProducts(s) ==
    \E limit \in 1..MaxLimit :
        \E R \in get_suggested_products(db, UserOf(s), limit) :
            /\ Returns(s, "get_suggested_products", limit, Outcome(db, "ok", R))
            /\ UNCHANGED <<added, today, session_state>>

NextSuggest == GetSuggestedProducts(1)

SpecSuggest == InitSuggest /\ [][NextSuggest]_vars

---------------------------------------------------------------------------
(* Catalog, one caller *)

CreateProduct(s) ==
    \E c \in CategoryIds, price \in Prices :
        /\ db.seq_products < MaxProducts
        /\ Returns(s, "create_product", 0, create_product(db, c, price))
        /\ UNCHANGED <<added, today, session_state>>

DeleteCategory(s) ==
    \E c \in CategoryIds \cup DOMAIN db.categories :
        /\ Returns(s, "delete_category", c, delete_category(db, c))
        /\ UNCHANGED <<added, today, session_state>>

NextCatalog ==
    \/ CreateProduct(1)
    \/ UpdateProduct(1)
    \/ DeleteProduct(1)
    \/ DeleteCategory(1)

SpecCatalog == Init /\ [][NextCatalog]_vars

---------------------------------------------------------------------------
(* Accounts and category names; every function here is one write statement *)
(* and its commit, or one SELECT, so the calls of the sessions interleave  *)
(* call by call                                                            *)

Usernames == {"demo_user", "ann"}
Emails == {"demo@example.com", "ann@example.com"}
Passwords == {"password123", "secret"}
CategoryNames == {"Dairy", "Bakery"}

CreateUser(s) ==
    \E username \in Usernames, email \in Emails, password \in Passwords :
        /\ db.seq_users < MaxUsers
        /\ Returns(s, "create_user", <<username, email>>,
                   create_user(db, username, email, password))
        /\ UNCHANGED <<added, today, session_state>>

Authenticate(s) ==
    \E username \in Usernames, password \in Passwords :
        /\ Returns(s, "authenticate_user", <<username, password>>,
                   authenticate_user(db, username, password))
        /\ UNCHANGED <<added, today, session_state>>

CreateCategory(s) ==
    \E n \in CategoryNames :
        /\ db.seq_categories < MaxCategories
        /\ Returns(s, "create_category", n, create_category(db, n))
        /\ UNCHANGED <<added, today, session_state>>

UpdateCategory(s) ==
    \E c \in 1..MaxCategories, n \in CategoryNames :
        /\ Returns(s, "update_category", <<c, n>>, update_category(db, c, n))
        /\ UNCHANGED <<added, today, session_state>>

NextAccounts ==
    \E s \in Sessions :
        \/ CreateUser(s)
        \/ Authenticate(s)
        \/ CreateCategory(s)
        \/ UpdateCategory(s)

SpecAccounts == Init /\ [][NextAccounts]_vars

---------------------------------------------------------------------------
(* Seeding: the database as init_database leaves it, then the sidebar's    *)
(* "load sample data" among registrations and catalog edits                *)

EmptyDb ==
    [InitDb EXCEPT !.categories = << >>, !.users = << >>, !.products = << >>,
                   !.seq_products = 0, !.seq_categories = 0, !.seq_users = 0]

InitSeed ==
    /\ db = EmptyDb
    /\ call = NoCall
    /\ pc = [s \in Sessions |-> "idle"]
    /\ local = [s \in Sessions |-> NoLocal]
    /\ tx = << >>
    /\ wlock = 0
    /\ added = [l \in ListIds |-> [p \in ProductIds |-> [calls |-> 0, sum |-> 0]]]
    /\ session_state = [s \in Sessions |-> NoSession]
    /\ today = 0

InsertSampleData(s) ==
    /\ db.seq_categories < MaxSeeds
    /\ Returns(s, "insert_sample_data", 0, insert_sample_data(db))
    /\ UNCHANGED <<added, today, session_state>>

NextSeed ==
    \E s \in Sessions :
        \/ InsertSampleData(s)
        \/ CreateUser(s)
        \/ CreateCategory(s)
        \/ DeleteCategory(s)
        \/ DeleteProduct(s)

SpecSeed == InitSeed /\ [][NextSeed]_vars

---------------------------------------------------------------------------
(* Inventory.  The pages call db.add_to_inventory, db.update_inventory_item, *)
(* db.use_inventory_item, db.delete_inventory_item, db.get_low_stock_items   *)
(* and db.get_out_of_stock_items; database.py defines none of them and       *)
(* creates no inventory table.  They are written here as the specification   *)
(* describes them (4.3 Inventory Engine), over an inventory table of rows     *)
(* with an owner, a product, a quantity, a minimum quantity, an expiry date   *)
(* (a day, or NoDate) and a location.                                         *)

MinQuantities == 0..MaxQuantity
UseAmounts == -1..(MaxQuantity + 1)
InventoryIds == 1..MaxInventory
Locations == {"Pantry", "Refrigerator"}
ExpiryDates == {NoDate} \cup 0..MaxDay

\* The rows of user u with product p at the location
BatchesOf(D, u, p, location) ==
    {i \in DOMAIN D.inventory : /\ D.inventory[i].user_id = u
                                /\ D.inventory[i].product_id = p
                                /\ D.inventory[i].location = location}

\* An add that raises the quantity of a row of the same user, product and
\* location when there is one
add_to_inventory_merging(D, u, p, q, expiry, location, min) ==
    IF BatchesOf(D, u, p, location) # {}
    THEN LET i == CHOOSE i \in BatchesOf(D, u, p, location) : TRUE
         IN  Outcome([D EXCEPT !.inventory[i].quantity = @ + q], "ok", i)
    ELSE Outcome([D EXCEPT !.inventory = With(@, D.seq_inventory + 1,
                                              [user_id |-> u, product_id |-> p,
                                               quantity |-> q, min_quantity |-> min,
                                               expiry_date |-> expiry,
                                               location |-> location]),
                           !.seq_inventory = @ + 1],
                 "ok", D.seq_inventory + 1)

\* addToInventory: always inserts a new row
add_to_inventory(D, u, p, q, expiry, location, min) ==
    Outcome([D EXCEPT !.inventory = With(@, D.seq_inventory + 1,
                                         [user_id |-> u, product_id |-> p,
                                          quantity |-> q, min_quantity |-> min,
                                          expiry_date |-> expiry,
                                          location |-> location]),
                      !.seq_inventory = @ + 1],
            "ok", D.seq_inventory + 1)

\* updateItem: full-field overwrite
update_inventory_item(D, i, q, min, expiry, location) ==
    IF i \in DOMAIN D.inventory
    THEN Outcome([D EXCEPT !.inventory[i].quantity = q,
                           !.inventory[i].min_quantity = min,
                           !.inventory[i].expiry_date = expiry,
                           !.inventory[i].location = location], "ok", 1)
    ELSE Outcome(D, "ok", 0)

\* A use that subtracts without a floor
use_inventory_item_unclamped(D, i, amount) ==
    IF amount <= 0
    THEN Outcome(D, "InvalidArgument", 0)
    ELSE IF i \in DOMAIN D.inventory
    THEN Outcome([D EXCEPT !.inventory[i].quantity = @ - amount], "ok", 1)
    ELSE Outcome(D, "ok", 0)

\* useItem: InvalidArgument if amount <= 0; decrements quantity by amount,
\* clamped at 0
use_inventory_item(D, i, amount) ==
    IF amount <= 0
    THEN Outcome(D, "InvalidArgument", 0)
    ELSE IF i \in DOMAIN D.inventory
    THEN Outcome([D EXCEPT !.inventory[i].quantity =
                               IF @ > amount THEN @ - amount ELSE 0], "ok", 1)
    ELSE Outcome(D, "ok", 0)

\* deleteItem
delete_inventory_item(D, i) ==
    IF i \in DOMAIN D.inventory
    THEN Outcome([D EXCEPT !.inventory = Without(@, i)], "ok", 1)
    ELSE Outcome(D, "ok", 0)

\* Low stock: quantity > 0 AND quantity <= minQuantity
get_low_stock_items(D, u) ==
    {i \in DOMAIN D.inventory : /\ D.inventory[i].user_id = u
                                /\ D.inventory[i].quantity > 0
                                /\ D.inventory[i].quantity <= D.inventory[i].min_quantity}

\* Out of stock: quantity == 0
get_out_of_stock_items(D, u) ==
    {i \in DOMAIN D.inventory : /\ D.inventory[i].user_id = u
                                /\ D.inventory[i].quantity = 0}

\* An expired query that takes today's items as well
get_expired_items_through_today(D, u, t) ==
    {[inventory_id |-> i, days_expired |-> t - D.inventory[i].expiry_date] :
        i \in {j \in DOMAIN D.inventory : /\ D.inventory[j].user_id = u
                                          /\ D.inventory[j].expiry_date # NoDate
                                          /\ D.inventory[j].expiry_date <= t}}

\* Expired: expiry date is set and strictly before today;
\* daysExpired = today - expiryDate
get_expired_items(D, u, t) ==
    {[inventory_id |-> i, days_expired |-> t - D.inventory[i].expiry_date] :
        i \in {j \in DOMAIN D.inventory : /\ D.inventory[j].user_id = u
                                          /\ D.inventory[j].expiry_date # NoDate
                                          /\ D.inventory[j].expiry_date < t}}

\* Expiring soon: expiry date is set, today <= expiry date <= today + N;
\* daysUntilExpiry = expiryDate - today
get_expiring_soon(D, u, t, days) ==
    {[inventory_id |-> i, days_until_expiry |-> D.inventory[i].expiry_date - t] :
        i \in {j \in DOMAIN D.inventory : /\ D.inventory[j].user_id = u
                                          /\ D.inventory[j].expiry_date # NoDate
                                          /\ t <= D.inventory[j].expiry_date
                                          /\ D.inventory[j].expiry_date <= t + days}}

\* The sample database with an empty inventory table
InventoryDb == InitDb @@ [inventory |-> << >>, seq_inventory |-> 0]

InitInventory ==
    /\ db = InventoryDb
    /\ call = NoCall
    /\ pc = [s \in Sessions |-> "idle"]
    /\ local = [s \in Sessions |-> NoLocal]
    /\ tx = << >>
    /\ wlock = 0
    /\ added = [l \in ListIds |-> [p \in ProductIds |-> [calls |-> 0, sum |-> 0]]]
    /\ session_state = [s \in Sessions |-> NoSession]
    /\ today = 0

\* The add form, for batches of the first product that do not expire
AddToInventory(s) ==
    \E p \in {1}, q \in Quantities, min \in MinQuantities, location \in Locations :
        /\ db.seq_inventory < MaxInventory
        /\ Returns(s, "add_to_inventory", <<p, q, location>>,
                   add_to_inventory(db, UserOf(s), p, q, NoDate, location, min))
        /\ UNCHANGED <<added, today, session_state>>

\* The edit form with a new quantity and minimum; expiry date and location
\* are sent back as the form showed them
UpdateInventoryItem(s) ==
    \E i \in DOMAIN db.inventory, q \in 0..MaxQuantity, min \in MinQuantities :
        /\ Returns(s, "update_inventory_item", i,
                   update_inventory_item(db, i, q, min, db.inventory[i].expiry_date,
                                         db.inventory[i].location))
        /\ UNCHANGED <<added, today, session_state>>

UseInventoryItem(s) ==
    \E i \in InventoryIds, amount \in UseAmounts :
        /\ Returns(s, "use_inventory_item", <<i, amount>>,
                   use_inventory_item(db, i, amount))
        /\ UNCHANGED <<added, today, session_state>>

DeleteInventoryItem(s) ==
    \E i \in InventoryIds :
        /\ Returns(s, "delete_inventory_item", i, delete_inventory_item(db, i))
        /\ UNCHANGED <<added, today, session_state>>

NextInventory ==
    \E s \in Sessions :
        \/ AddToInventory(s)
        \/ UpdateInventoryItem(s)
        \/ UseInventoryItem(s)
        \/ DeleteInventoryItem(s)

SpecInventory == InitInventory /\ [][NextInventory]_vars

\* The days of the expiry alerts: the 7 of the pages, and windows that end
\* before the last day of the model
ExpiringDays == 7
AlertDays == {0, 1, ExpiringDays}

\* The add form, for one unit of a product with an expiry date or none
AddDatedToInventory(s) ==
    \E p \in ProductIds, expiry \in ExpiryDates :
        /\ db.seq_inventory < MaxInventory
        /\ Returns(s, "add_to_inventory", <<p, 1, "Pantry">>,
                   add_to_inventory(db, UserOf(s), p, 1, expiry, "Pantry", 0))
        /\ UNCHANGED <<added, today, session_state>>

\* The edit form with a new expiry date
UpdateExpiryDate(s) ==
    \E i \in DOMAIN db.inventory, expiry \in ExpiryDates :
        /\ Returns(s, "update_inventory_item", i,
                   update_inventory_item(db, i, db.inventory[i].quantity,
                                         db.inventory[i].min_quantity, expiry,
                                         db.inventory[i].location))
        /\ UNCHANGED <<added, today, session_state>>

\* db.get_expired_items(user_id)
GetExpiredItems(s) ==
    /\ Returns(s, "get_expired_items", 0,
               Outcome(db, "ok", get_expired_items(db, UserOf(s), today)))
    /\ UNCHANGED <<added, today, session_state>>

\* db.get_expiring_soon(user_id, days)
GetExpiringSoon(s) ==
    \E days \in AlertDays :
        /\ Returns(s, "get_expiring_soon", days,
                   Outcome(db, "ok", get_expiring_soon(db, UserOf(s), today, days)))
        /\ UNCHANGED <<added, today, session_state>>

NextExpiry ==
    \/ Tick
    \/ \E s \in Sessions :
        \/ AddDatedToInventory(s)
        \/ UpdateExpiryDate(s)
        \/ GetExpiredItems(s)
        \/ GetExpiringSoon(s)

SpecExpiry == InitInventory /\ [][NextExpiry]_vars

---------------------------------------------------------------------------
(* The orders page of a browser session.  Each button runs its engine      *)
(* function and the assignments to st.session_state that follow it; the    *)
(* New Order tab reads the current order first and shows its buttons only  *)
(* when get_order_by_id found the order.                                   *)

\* The login form, for the user of the session
Login(s) ==
    /\ ~session_state[s].logged_in
    /\ Returns(s, "authenticate_user", 0, Outcome(db, "ok", UserOf(s)))
    /\ session_state' = [session_state EXCEPT ![s].logged_in = TRUE,
                                              ![s].user_id = UserOf(s)]
    /\ UNCHANGED <<added, today>>

\* Logout
Logout(s) ==
    /\ session_state[s].logged_in
    /\ pc[s] = "idle"
    /\ session_state' = [session_state EXCEPT ![s] = NoSession]
    /\ UNCHANGED <<db, call, pc, local, tx, wlock, added, today>>

\* New Order tab, Start New Order: shown while current_order_id is None
StartNewOrder(s) ==
    /\ session_state[s].logged_in
    /\ session_state[s].current_order_id = 0
    /\ db.seq_orders < MaxOrders
    /\ LET created == create_order(db, session_state[s].user_id)
       IN  /\ Returns(s, "create_order", 0, created)
           /\ session_state' = [session_state EXCEPT ![s].current_order_id = created.rv]
    /\ UNCHANGED <<added, today>>

\* The New Order tab shows an order: current_order_id is set and
\* get_order_by_id returns its row
ShowsCurrentOrder(s) ==
    /\ session_state[s].logged_in
    /\ session_state[s].current_order_id # 0
    /\ session_state[s].current_order_id \in DOMAIN db.orders

\* New Order tab, Add to Order: a product of get_all_products, quantity >= 1
AddToOrder(s) ==
    \E p \in DOMAIN db.products, q \in Quantities :
        /\ ShowsCurrentOrder(s)
        /\ Len(db.order_details) < MaxDetails
        /\ Returns(s, "add_order_detail", session_state[s].current_order_id,
                   add_order_detail(db, session_state[s].current_order_id, p, q))
        /\ UNCHANGED <<added, today, session_state>>

\* New Order tab, Complete Order
CompleteCurrentOrder(s) ==
    /\ ShowsCurrentOrder(s)
    /\ Returns(s, "complete_order", session_state[s].current_order_id,
               complete_order(db, session_state[s].current_order_id))
    /\ session_state' = [session_state EXCEPT ![s].current_order_id = 0]
    /\ UNCHANGED <<added, today>>

\* New Order tab, Cancel Order
CancelCurrentOrder(s) ==
    /\ ShowsCurrentOrder(s)
    /\ Returns(s, "delete_order", session_state[s].current_order_id,
               delete_order(db, session_state[s].current_order_id))
    /\ session_state' = [session_state EXCEPT ![s].current_order_id = 0]
    /\ UNCHANGED <<added, today>>

\* The pending orders the Order History tab lists: get_user_orders(user_id)
\* with status pending
PendingOrdersOf(D, u) ==
    {o \in DOMAIN D.orders : D.orders[o].user_id = u /\ D.orders[o].status = "pending"}

\* Order History tab, Complete Order of a pending order
HistoryCompleteOrder(s) ==
    \E o \in PendingOrdersOf(db, session_state[s].user_id) :
        /\ session_state[s].logged_in
        /\ Returns(s, "complete_order", o, complete_order(db, o))
        /\ UNCHANGED <<added, today, session_state>>

\* Order History tab, Cancel Order of a pending order
HistoryCancelOrder(s) ==
    \E o \in PendingOrdersOf(db, session_state[s].user_id) :
        /\ session_state[s].logged_in
        /\ Returns(s, "delete_order", o, delete_order(db, o))
        /\ UNCHANGED <<added, today, session_state>>

NextOrdersPage ==
    \E s \in Sessions :
        \/ Login(s)
        \/ Logout(s)
        \/ StartNewOrder(s)
        \/ AddToOrder(s)
        \/ CompleteCurrentOrder(s)
        \/ CancelCurrentOrder(s)
        \/ HistoryCompleteOrder(s)
        \/ HistoryCancelOrder(s)

SpecOrdersPage == Init /\ [][NextOrdersPage]_vars

---------------------------------------------------------------------------
(* Shopping list engine, one caller *)

CreateShoppingList(s) ==
    /\ db.seq_lists < MaxLists
    /\ Returns(s, "create_shopping_list", 0, create_shopping_list(db, UserOf(s)))
    /\ UNCHANGED <<added, today, session_state>>

AddItem(s) ==
    \E l \in ListIds, p \in ProductIds, q \in Quantities :
        /\ \A i \in ItemsFor(db, l, p) :
               db.shopping_list_items[i].quantity + q <= MaxRowQuantity
        /\ ItemsFor(db, l, p) = {} => Len(db.shopping_list_items) < MaxItems
        /\ Returns(s, "add_item_to_shopping_list", l,
                   add_item_to_shopping_list(db, l, p, q))
        /\ added' = [added EXCEPT ![l][p] = [calls |-> @.calls + 1, sum |-> @.sum + q]]
        /\ UNCHANGED <<today, session_state>>

ToggleItem(s) ==
    \E i \in 1..MaxItems :
        /\ Returns(s, "toggle_shopping_list_item", i,
                   toggle_shopping_list_item(db, i))
        /\ UNCHANGED <<added, today, session_state>>

DeleteShoppingList(s) ==
    \E l \in ListIds :
        /\ Returns(s, "delete_shopping_list", l, delete_shopping_list(db, l))
        /\ UNCHANGED <<added, today, session_state>>

Convert(s) ==
    \E l \in ListIds :
        /\ db.seq_orders < MaxOrders
        /\ Len(db.order_details) + Len(get_shopping_list_items(db, l)) <= MaxDetails
        /\ Returns(s, "convert_shopping_list_to_order", l,
                   convert_shopping_list_to_order(db, l, UserOf(s)))
        /\ UNCHANGED <<added, today, session_state>>

NextList ==
    \/ CreateShoppingList(1)
    \/ AddItem(1)
    \/ ToggleItem(1)
    \/ DeleteShoppingList(1)
    \/ Convert(1)
    \/ UpdateProduct(1)
    \/ DeleteProduct(1)

SpecList == Init /\ [][NextList]_vars

\* The shopping lists page of two users: either may name any list id
NextTwoUsers ==
    \E s \in Sessions :
        \/ CreateShoppingList(s)
        \/ AddItem(s)
        \/ Convert(s)

SpecTwoUsers == Init /\ [][NextTwoUsers]_vars

---------------------------------------------------------------------------
(* Concurrent sessions.  Each function opens a connection of its own.  A   *)
(* SELECT reads the committed database.  The first INSERT, UPDATE or       *)
(* DELETE on a connection opens a transaction that holds SQLite's write    *)
(* lock until conn.commit(); what it wrote is in tx and other connections  *)
(* keep reading db.  A function made of one write statement and its commit *)
(* is one step (Returns).  A connection that finds the write lock taken    *)
(* waits, or gives up with "database is locked" (Busy).                    *)

Running(s, op) == pc[s] # "idle" /\ local[s].op = op

InFlightDetails ==
    Cardinality({s \in Sessions : Running(s, "add_order_detail")})
    + Cardinality({s \in Sessions : Running(s, "convert_shopping_list_to_order")
                                    /\ pc[s] = "conv_create"})

\* get_connection: conn = sqlite3.connect(DATABASE_PATH), one more open
\* connection
Open(n) == n + 1

\* A with block that closes its connection only when its body returns
ExitWith_unless_raised(n, raised) == IF raised THEN n ELSE n - 1

\* get_connection: the finally clause closes the connection when the body
\* of the with block returns and when it raises
ExitWith(n, raised) == n - 1

\* An exception leaves the with blocks it was raised in, innermost first
RECURSIVE Unwind(_, _)
Unwind(n, blocks) == IF blocks = 0 THEN n ELSE Unwind(ExitWith(n, TRUE), blocks - 1)

\* What stays of a call's frame once it has returned: a function that
\* returns leaves its own with block, an exception every block of the call
Returned(frame, result) ==
    [NoLocal EXCEPT !.op = frame.op, !.id = frame.id, !.order_id = frame.order_id,
                    !.sawActive = frame.sawActive, !.result = result,
                    !.conns = IF result = "ok"
                              THEN ExitWith(frame.conns, FALSE)
                              ELSE Unwind(frame.conns, frame.conns)]

\* The call of session s ends: with a return value, or with the exception
\* that result names; an open transaction of s is rolled back when its
\* connection closes
FinishFrom(s, frame, result, rv) ==
    /\ pc' = [pc EXCEPT ![s] = "idle"]
    /\ local' = [local EXCEPT ![s] = Returned(frame, result)]
    /\ call' = Called(s, frame.op, frame.id, Outcome(db, result, rv))
    /\ IF wlock = s THEN tx' = << >> /\ wlock' = 0 ELSE UNCHANGED <<tx, wlock>>

Finish(s, result, rv) == FinishFrom(s, local[s], result, rv)

\* add_item_to_shopping_list: SELECT item_id ... ; existing = cursor.fetchone()
AddItemSelect(s) ==
    \E l \in ListIds, p \in ProductIds, q \in Quantities :
        /\ pc[s] = "idle"
        /\ \A i \in ItemsFor(db, l, p) :
               db.shopping_list_items[i].quantity + q <= MaxRowQuantity
        /\ ItemsFor(db, l, p) = {} => Len(db.shopping_list_items) < MaxItems
        /\ local' = [local EXCEPT ![s] =
                        [NoLocal EXCEPT !.op = "add_item_to_shopping_list",
                                        !.id = l, !.product = p, !.quantity = q,
                                        !.existing = ItemsFor(db, l, p) # {},
                                        !.conns = Open(0)]]
        /\ pc' = [pc EXCEPT ![s] = "item_write"]
        /\ UNCHANGED <<db, call, tx, wlock, added, today, session_state>>

\* add_item_to_shopping_list: the UPDATE or the INSERT, and conn.commit()
AddItemWrite(s) ==
    /\ pc[s] = "item_write"
    /\ wlock = 0
    /\ db' = WriteItem(db, local[s].existing, local[s].id, local[s].product,
                       local[s].quantity)
    /\ added' = [added EXCEPT ![local[s].id][local[s].product] =
                      [calls |-> @.calls + 1, sum |-> @.sum + local[s].quantity]]
    /\ UNCHANGED <<today, session_state>>
    /\ Finish(s, "ok", 0)

\* add_order_detail, called by a page: SELECT unit_price FROM products
AddOrderDetailCall(s) ==
    \E o \in OrderIds, p \in ProductIds, q \in Quantities :
        /\ pc[s] = "idle"
        /\ Len(db.order_details) + InFlightDetails < MaxDetails
        /\ IF p \in DOMAIN db.products
           THEN /\ local' = [local EXCEPT ![s] =
                                [NoLocal EXCEPT !.op = "add_order_detail",
                                                !.id = o, !.order_id = o,
                                                !.product = p, !.quantity = q,
                                                !.price = db.products[p].unit_price,
                                                !.conns = Open(0)]]
                /\ pc' = [pc EXCEPT ![s] = "aod_insert"]
                /\ UNCHANGED <<call, tx, wlock>>
           ELSE /\ pc' = pc
                /\ local' = [local EXCEPT ![s] =
                                [NoLocal EXCEPT !.op = "add_order_detail",
                                                !.id = o, !.result = "NotFound",
                                                !.conns = Unwind(Open(0), 1)]]
                /\ call' = Called(s, "add_order_detail", o, Outcome(db, "NotFound", 0))
                /\ UNCHANGED <<tx, wlock>>
        /\ UNCHANGED <<db, added, today, session_state>>

\* add_order_detail, called by convert_shopping_list_to_order for the item
\* at hand: SELECT unit_price FROM products; ValueError when there is none
AodSelect(s) ==
    /\ pc[s] = "aod_select"
    /\ IF local[s].product \in DOMAIN db.products
       THEN /\ local' = [local EXCEPT ![s].price =
                                          db.products[local[s].product].unit_price,
                                      ![s].conns = Open(@)]
            /\ pc' = [pc EXCEPT ![s] = "aod_insert"]
            /\ UNCHANGED <<call, tx, wlock>>
       ELSE FinishFrom(s, [local[s] EXCEPT !.conns = Open(@)], "NotFound", 0)
    /\ UNCHANGED <<db, added, today, session_state>>

AodInsert_autocommit(s) ==
    /\ pc[s] = "aod_insert"
    /\ wlock = 0
    /\ wlock' = s
    /\ db' = InsertDetail(db, local[s].order_id, local[s].product,
                          local[s].quantity, local[s].price)
    /\ tx' = db'
    /\ pc' = [pc EXCEPT ![s] = "aod_update"]
    /\ UNCHANGED <<call, local, added, today, session_state>>

\* add_order_detail: the INSERT opens the transaction
AodInsert(s) ==
    /\ pc[s] = "aod_insert"
    /\ wlock = 0
    /\ wlock' = s
    /\ tx' = InsertDetail(db, local[s].order_id, local[s].product,
                          local[s].quantity, local[s].price)
    /\ pc' = [pc EXCEPT ![s] = "aod_update"]
    /\ UNCHANGED <<db, call, local, added, today, session_state>>

\* add_order_detail: UPDATE orders SET total_amount, in the same transaction
AodUpdate(s) ==
    /\ pc[s] = "aod_update"
    /\ wlock = s
    /\ tx' = UpdateTotal(tx, local[s].order_id)
    /\ pc' = [pc EXCEPT ![s] = "aod_commit"]
    /\ UNCHANGED <<db, call, local, wlock, added, today, session_state>>

\* add_order_detail: conn.commit() and the return, to the page or to the
\* loop of convert_shopping_list_to_order
AodCommit(s) ==
    /\ pc[s] = "aod_commit"
    /\ wlock = s
    /\ db' = tx
    /\ tx' = << >>
    /\ wlock' = 0
    /\ IF local[s].op = "add_order_detail"
       THEN /\ pc' = [pc EXCEPT ![s] = "idle"]
            /\ local' = [local EXCEPT ![s] = Returned(local[s], "ok")]
            /\ call' = Called(s, "add_order_detail", local[s].id,
                              Outcome(tx, "ok", Len(tx.order_details)))
       ELSE IF local[s].i < Len(local[s].items)
       THEN /\ pc' = [pc EXCEPT ![s] = "aod_select"]
            /\ local' = [local EXCEPT
                            ![s].i = @ + 1,
                            ![s].product = local[s].items[local[s].i + 1].product_id,
                            ![s].quantity = local[s].items[local[s].i + 1].quantity,
                            ![s].conns = ExitWith(@, FALSE)]
            /\ UNCHANGED call
       ELSE /\ pc' = [pc EXCEPT ![s] = "conv_complete"]
            /\ local' = [local EXCEPT ![s].conns = ExitWith(@, FALSE)]
            /\ UNCHANGED call
    /\ UNCHANGED <<added, today, session_state>>

\* convert_shopping_list_to_order: items = get_shopping_list_items(list_id);
\* ValueError when there are none
ConvertCall(s) ==
    \E l \in ListIds :
        /\ pc[s] = "idle"
        /\ db.seq_orders + InFlightDetails < MaxOrders
        /\ Len(db.order_details) + InFlightDetails
               + Len(get_shopping_list_items(db, l)) <= MaxDetails
        /\ LET items == get_shopping_list_items(db, l)
               frame == [NoLocal EXCEPT !.op = "convert_shopping_list_to_order",
                                        !.id = l, !.items = items,
                                        !.sawActive = ActiveList(db, l),
                                        !.conns = Open(0)]
           IN  IF items = << >>
               THEN /\ pc' = pc
                    /\ local' = [local EXCEPT ![s] = Returned(frame, "EmptyList")]
                    /\ call' = Called(s, frame.op, l, Outcome(db, "EmptyList", 0))
               ELSE /\ pc' = [pc EXCEPT ![s] = "conv_create"]
                    /\ local' = [local EXCEPT ![s] = frame]
                    /\ UNCHANGED call
        /\ UNCHANGED <<db, tx, wlock, added, today, session_state>>

\* convert_shopping_list_to_order: order_id = create_order(user_id)
ConvCreate(s) ==
    /\ pc[s] = "conv_create"
    /\ wlock = 0
    /\ LET created == create_order(db, UserOf(s))
       IN  /\ db' = created.db
           /\ local' = [local EXCEPT ![s].order_id = created.rv,
                                     ![s].i = 1,
                                     ![s].product = local[s].items[1].product_id,
                                     ![s].quantity = local[s].items[1].quantity]
    /\ pc' = [pc EXCEPT ![s] = "aod_select"]
    /\ UNCHANGED <<call, tx, wlock, added, today, session_state>>

\* convert_shopping_list_to_order: complete_order(order_id)
ConvComplete(s) ==
    /\ pc[s] = "conv_complete"
    /\ wlock = 0
    /\ db' = complete_order(db, local[s].order_id).db
    /\ pc' = [pc EXCEPT ![s] = "conv_deactivate"]
    /\ UNCHANGED <<call, local, tx, wlock, added, today, session_state>>

\* convert_shopping_list_to_order: UPDATE shopping_lists SET is_active = 0,
\* conn.commit() and return order_id
ConvDeactivate(s) ==
    /\ pc[s] = "conv_deactivate"
    /\ wlock = 0
    /\ db' = DeactivateList(db, local[s].id)
    /\ pc' = [pc EXCEPT ![s] = "idle"]
    /\ local' = [local EXCEPT ![s] = Returned(local[s], "ok")]
    /\ call' = Called(s, local[s].op, local[s].id,
                      Outcome(db', "ok", local[s].order_id))
    /\ UNCHANGED <<tx, wlock, added, today, session_state>>

\* DELETE FROM categories WHERE category_id = c
DeleteCategoryRow(D, c) ==
    IF c \in DOMAIN D.categories
    THEN Outcome([D EXCEPT !.categories = Without(@, c)], "ok", 1)
    ELSE Outcome(D, "ok", 0)

\* delete_category: SELECT COUNT(*) FROM products WHERE category_id = ?;
\* ValueError when the count is positive
DeleteCategoryCount(s) ==
    \E c \in CategoryIds \cup DOMAIN db.categories :
        /\ pc[s] = "idle"
        /\ LET frame == [NoLocal EXCEPT !.op = "delete_category", !.id = c,
                                        !.conns = Open(0)]
           IN  IF LinkedProducts(db, c) # {}
               THEN /\ pc' = pc
                    /\ local' = [local EXCEPT ![s] = Returned(frame, "Conflict")]
                    /\ call' = Called(s, "delete_category", c, Outcome(db, "Conflict", 0))
               ELSE /\ pc' = [pc EXCEPT ![s] = "category_delete"]
                    /\ local' = [local EXCEPT ![s] = frame]
                    /\ UNCHANGED call
        /\ UNCHANGED <<db, tx, wlock, added, today, session_state>>

\* delete_category: the DELETE, conn.commit() and return cursor.rowcount > 0
DeleteCategoryDelete(s) ==
    /\ pc[s] = "category_delete"
    /\ wlock = 0
    /\ LET deleted == DeleteCategoryRow(db, local[s].id)
       IN  /\ db' = deleted.db
           /\ pc' = [pc EXCEPT ![s] = "idle"]
           /\ local' = [local EXCEPT ![s] = Returned(local[s], "ok")]
           /\ call' = Called(s, "delete_category", local[s].id, deleted)
    /\ UNCHANGED <<tx, wlock, added, today, session_state>>

WriteSteps == {"item_write", "aod_insert", "conv_create", "conv_complete",
               "conv_deactivate"}

\* sqlite3.OperationalError "database is locked": the write lock stayed
\* with another connection for the whole busy timeout
Busy(s) ==
    /\ pc[s] \in WriteSteps
    /\ wlock \notin {0, s}
    /\ Finish(s, "StorageFailure", 0)
    /\ UNCHANGED <<db, added, today, session_state>>

NextAddItem ==
    \E s \in Sessions :
        \/ CreateShoppingList(s)
        \/ AddItemSelect(s)
        \/ AddItemWrite(s)

SpecAddItem == Init /\ [][NextAddItem]_vars

NextAddLine ==
    \E s \in Sessions :
        \/ CreateOrder(s)
        \/ AddOrderDetailCall(s)
        \/ AodInsert(s)
        \/ AodUpdate(s)
        \/ AodCommit(s)
        \/ Busy(s)
        \/ CompleteOrder(s)
        \/ DeleteOrder(s)

SpecAddLine == Init /\ [][NextAddLine]_vars

NextConvert ==
    \/ CreateShoppingList(1)
    \/ AddItem(1)
    \/ \E s \in Sessions :
        \/ ConvertCall(s)
        \/ ConvCreate(s)
        \/ AodSelect(s)
        \/ AodInsert(s)
        \/ AodUpdate(s)
        \/ AodCommit(s)
        \/ ConvComplete(s)
        \/ ConvDeactivate(s)
        \/ Busy(s)
        \/ DeleteProduct(s)

NextCategories ==
    \E s \in Sessions :
        \/ CreateProduct(s)
        \/ UpdateProduct(s)
        \/ DeleteProduct(s)
        \/ DeleteCategoryCount(s)
        \/ DeleteCategoryDelete(s)

SpecCategories == Init /\ [][NextCategories]_vars

SpecConvert == Init /\ [][NextConvert]_vars

---------------------------------------------------------------------------
(* Properties of the order engine *)

\* C1: after any sequence of create_order, add_order_detail, complete_order,
\* delete_order and product edits, every existing order's total_amount is
\* the sum of the subtotals of the line items carrying its order_id.
C1_TotalIsSumOfLineItems ==
    \A o \in DOMAIN db.orders :
        db.orders[o].total_amount
            = SumSubtotals(db.order_details, o, Len(db.order_details))

---------------------------------------------------------------------------
(* Properties of the shopping list engine *)

IsConvert(c) == c.op = "convert_shopping_list_to_order"

RECURSIVE ListValue(_, _, _)
\* Sum of price x quantity over the items of list l among rows 1..n, at the
\* prices of database D
ListValue(D, l, n) ==
    IF n = 0 THEN 0
    ELSE ListValue(D, l, n - 1)
         + (IF /\ D.shopping_list_items[n].list_id = l
               /\ D.shopping_list_items[n].product_id \in DOMAIN D.products
            THEN D.products[D.shopping_list_items[n].product_id].unit_price
                     * D.shopping_list_items[n].quantity
            ELSE 0)

\* The order o of database E holds exactly one line item per item of list l
\* of database D: same product, same quantity, at D's price of the product
OneLineItemPerListItem(D, E, l, o) ==
    /\ Cardinality(DetailsOf(E, o)) = Cardinality(ItemsOf(D, l))
    /\ \A i \in ItemsOf(D, l) :
           \E d \in DetailsOf(E, o) :
               LET item == D.shopping_list_items[i]
                   line == E.order_details[d]
               IN  /\ line.product_id = item.product_id
                   /\ line.quantity = item.quantity
                   /\ item.product_id \in DOMAIN D.products
                   /\ line.unit_price = D.products[item.product_id].unit_price
                   /\ line.subtotal = line.unit_price * line.quantity

ConvertedInto(D, E, c) ==
    /\ c.result = "ok"
    /\ c.rv \notin DOMAIN D.orders
    /\ c.rv \in DOMAIN E.orders
    /\ E.orders[c.rv].user_id = UserOf(c.session)
    /\ E.orders[c.rv].status = "completed"
    /\ OneLineItemPerListItem(D, E, c.id, c.rv)
    /\ E.orders[c.rv].total_amount
           = ListValue(D, c.id, Len(D.shopping_list_items))
    /\ c.id \in DOMAIN E.shopping_lists
    /\ ~E.shopping_lists[c.id].is_active
    /\ E.shopping_list_items = D.shopping_list_items

\* C2: converting an active list that has at least one item returns a new
\* completed order of the caller with one line item per list item (same
\* product and quantity, at the product's current price), totalling the
\* list's value, and leaves the list inactive with its items unchanged.
C2_ConvertBuildsTheOrder ==
    [][(IsConvert(call') /\ ActiveList(db, call'.id) /\ ItemsOf(db, call'.id) # {})
           => ConvertedInto(db, db', call')]_vars

\* C6: converting a list that is already inactive fails with EmptyList and
\* leaves the orders and their line items as they were.
C6_InactiveListIsNotConverted ==
    [][(/\ IsConvert(call')
        /\ call'.id \in DOMAIN db.shopping_lists
        /\ ~db.shopping_lists[call'.id].is_active)
           => /\ call'.result = "EmptyList"
              /\ db'.orders = db.orders
              /\ db'.order_details = db.order_details]_vars

\* C7: converting a list with zero items fails with EmptyList, creates no
\* order and no line item, and leaves the list active.
C7_EmptyListIsRejected ==
    [][(IsConvert(call') /\ ItemsOf(db, call'.id) = {})
           => /\ call'.result = "EmptyList"
              /\ db' = db
              /\ call'.id \in DOMAIN db'.shopping_lists
                     => db'.shopping_lists[call'.id].is_active]_vars

C7_Witness ==
    /\ IsConvert(call)
    /\ call.result = "EmptyList"
    /\ ActiveList(db, call.id)
    /\ ItemsOf(db, call.id) = {}
    /\ db.orders = << >>

OneRowPerProduct ==
    \A l \in ListIds, p \in ProductIds :
        /\ Cardinality(ItemsFor(db, l, p)) <= 1
        /\ added[l][p].calls > 0 => ItemsFor(db, l, p) # {}
        /\ \A i \in ItemsFor(db, l, p) :
               db.shopping_list_items[i].quantity = added[l][p].sum

InsertedUnpurchased ==
    Len(db'.shopping_list_items) > Len(db.shopping_list_items)
        => ~db'.shopping_list_items[Len(db'.shopping_list_items)].is_purchased

\* C8: after any sequence of add_item_to_shopping_list calls made one after
\* the other, a list holds at most one row per product, whose quantity is
\* the sum of the quantities of all calls for that list and product; a row
\* the call inserts is not purchased.
C8_AddItemMerges == [](OneRowPerProduct) /\ [][InsertedUnpurchased]_vars

C8_Witness ==
    \E l \in ListIds, p \in ProductIds :
        /\ ActiveList(db, l)
        /\ added[l][p].calls > 1
        /\ \E i \in ItemsFor(db, l, p) :
               db.shopping_list_items[i].quantity = added[l][p].sum

---------------------------------------------------------------------------
(* Properties of concurrent sessions *)

\* C3: a convert_shopping_list_to_order call that fails after it created
\* its order leaves neither that order nor a line item of it, and the list
\* still active.
C3_FailedConvertLeavesNothing ==
    \A s \in Sessions :
        (/\ IsConvert(call) /\ call.session = s
         /\ call.result \notin {"ok", "EmptyList"}
         /\ local[s].order_id # 0)
            => /\ local[s].order_id \notin DOMAIN db.orders
               /\ DetailsOf(db, local[s].order_id) = {}
               /\ call.id \in DOMAIN db.shopping_lists => ActiveList(db, call.id)

\* C4: while a conversion is in progress, the order it is creating is not
\* visible as pending, nor with only some of the list's line items, nor as
\* completed while the list is still active.
C4_NoPartialOrderVisible ==
    \A s \in Sessions :
        (/\ Running(s, "convert_shopping_list_to_order")
         /\ local[s].order_id \in DOMAIN db.orders)
            => /\ db.orders[local[s].order_id].status = "completed"
               /\ Cardinality(DetailsOf(db, local[s].order_id)) = Len(local[s].items)
               /\ ~ActiveList(db, local[s].id)

ConvertedConcurrently(s, l) ==
    /\ pc[s] = "idle"
    /\ IsConvert(local[s])
    /\ local[s].id = l
    /\ local[s].sawActive
    /\ local[s].result = "ok"

\* C5: of two conversions of the same list that run concurrently (each
\* began while the list was active), at most one succeeds.
C5_OneConcurrentConversionSucceeds ==
    \A l \in ListIds : \A s, t \in Sessions :
        (s # t /\ ConvertedConcurrently(s, l)) => ~ConvertedConcurrently(t, l)

\* C9: when add_item_to_shopping_list calls for the same list and product
\* run concurrently, the list never holds two rows for the product, and once
\* the calls have returned the row's quantity is the sum of the amounts.
C9_ConcurrentAddItemMerges ==
    \A l \in ListIds, p \in ProductIds :
        /\ Cardinality(ItemsFor(db, l, p)) <= 1
        /\ (\A s \in Sessions : pc[s] = "idle")
               => \A i \in ItemsFor(db, l, p) :
                      db.shopping_list_items[i].quantity = added[l][p].sum

TotalCovers(D, o) ==
    o \in DOMAIN D.orders
        => D.orders[o].total_amount
               = SumSubtotals(D.order_details, o, Len(D.order_details))

\* Every line item that becomes visible to readers in a step does so
\* together with a total of its order that includes it
CommittedWithTotal ==
    \A k \in (Len(db.order_details) + 1)..Len(db'.order_details) :
        TotalCovers(db', db'.order_details[k].order_id)

\* When an add_order_detail call has just returned, the order's total is
\* the sum of all its line items, those of concurrent calls included
TotalAfterReturn ==
    (call.op = "add_order_detail" /\ call.result = "ok") => TotalCovers(db, call.id)

\* C10: the insert and the total's recomputation of add_order_detail are
\* atomic with respect to concurrent add_order_detail calls: no reader sees
\* a committed line item that the order's total does not include, and once
\* the calls have returned the total is the sum of the order's line items.
C10_InsertAndTotalAreAtomic == [](TotalAfterReturn) /\ [][CommittedWithTotal]_vars

C10_Witness ==
    \E s, t \in Sessions :
        /\ s # t
        /\ pc[s] = "aod_commit" /\ wlock = s
        /\ pc[t] = "aod_insert"
        /\ local[s].order_id = local[t].order_id
        /\ local[s].order_id \in DOMAIN db.orders
        /\ Cardinality(DetailsOf(tx, local[s].order_id))
               = Cardinality(DetailsOf(db, local[s].order_id)) + 1
        /\ TotalCovers(tx, local[s].order_id)
        /\ tx.orders[local[s].order_id].total_amount
               # db.orders[local[s].order_id].total_amount

---------------------------------------------------------------------------
(* Properties of the order life cycle *)

\* C11: once an order is completed, add_order_detail on it is rejected and,
\* as long as the order exists, its line items and its total_amount stay as
\* they are.
C11_CompletedOrderIsFrozen ==
    [][\A o \in DOMAIN db.orders :
          db.orders[o].status = "completed"
              => /\ (call'.op = "add_order_detail" /\ call'.id = o)
                        => call'.result # "ok"
                 /\ o \in DOMAIN db'.orders
                        => /\ DetailsOf(db', o) = DetailsOf(db, o)
                           /\ db'.orders[o].total_amount = db.orders[o].total_amount]_vars

\* C12: after delete_order(o) has removed the order, no order_details row
\* with order_id = o remains.
C12_DeleteOrderRemovesLineItems ==
    (call.op = "delete_order" /\ call.rv = 1) => DetailsOf(db, call.id) = {}

\* C13: after delete_shopping_list(l) has removed the list, no
\* shopping_list_items row with list_id = l remains.
C13_DeleteListRemovesItems ==
    (call.op = "delete_shopping_list" /\ call.rv = 1) => ItemsOf(db, call.id) = {}

\* update_product changes no line item and no order
EditKeepsHistory ==
    call'.op = "update_product"
        => /\ db'.order_details = db.order_details
           /\ db'.orders = db.orders

\* A line item that add_order_detail adds carries the product's price of
\* the moment, and the earlier line items stay as they are
NewLineAtCurrentPrice ==
    (call'.op = "add_order_detail" /\ call'.result = "ok")
        => /\ Len(db'.order_details) = Len(db.order_details) + 1
           /\ SubSeq(db'.order_details, 1, Len(db.order_details)) = db.order_details
           /\ LET line == db'.order_details[Len(db'.order_details)]
              IN  /\ line.product_id \in DOMAIN db.products
                  /\ line.unit_price = db.products[line.product_id].unit_price
                  /\ line.subtotal = line.unit_price * line.quantity

\* C14: a line item's unit price is a snapshot: update_product leaves the
\* unit_price and subtotal of every line item and the total_amount of every
\* order unchanged, and a line item added afterwards uses the new price.
C14_UnitPriceIsSnapshot == [][EditKeepsHistory /\ NewLineAtCurrentPrice]_vars

C14_Witness ==
    /\ call.op = "add_order_detail"
    /\ \E i, j \in 1..Len(db.order_details) :
           /\ i < j
           /\ j = Len(db.order_details)
           /\ db.order_details[i].product_id = db.order_details[j].product_id
           /\ db.order_details[i].order_id = db.order_details[j].order_id
           /\ db.order_details[i].unit_price # db.order_details[j].unit_price
           /\ db.order_details[j].product_id \in DOMAIN db.products
           /\ db.order_details[j].unit_price
                  = db.products[db.order_details[j].product_id].unit_price

\* C15: add_order_detail for a product that does not exist fails with
\* NotFound and leaves the database as it was; stated on what can be seen of
\* the call: it either fails with NotFound while a product is missing and
\* changes nothing, or adds one line item whose product exists.
C15_MissingProductIsRejected ==
    [][call'.op = "add_order_detail"
          => \/ /\ call'.result = "NotFound"
                /\ DOMAIN db.products # ProductIds
                /\ db' = db
             \/ /\ call'.result = "ok"
                /\ Len(db'.order_details) = Len(db.order_details) + 1
                /\ db'.order_details[Len(db'.order_details)].product_id
                       \in DOMAIN db.products]_vars

C15_Witness ==
    /\ call.op = "add_order_detail"
    /\ call.result = "NotFound"
    /\ call.id \in DOMAIN db.orders
    /\ DetailsOf(db, call.id) # {}
    /\ TotalCovers(db, call.id)

\* C16: every stored line item has a quantity of at least 1, whatever
\* quantity add_order_detail was called with.
C16_QuantityAtLeastOne ==
    \A i \in 1..Len(db.order_details) : db.order_details[i].quantity >= 1

\* C17: add_order_detail for an order id that does not exist fails with
\* NotFound and inserts no line item.
C17_MissingOrderIsRejected ==
    [][(call'.op = "add_order_detail" /\ call'.id \notin DOMAIN db.orders)
          => /\ call'.result = "NotFound"
             /\ db'.order_details = db.order_details]_vars

\* complete_order on a completed order succeeds and changes nothing
RecompletingChangesNothing ==
    (call'.op = "complete_order" /\ StatusOf(db, call'.id) = "completed")
        => /\ call'.result = "ok"
           /\ db' = db

\* No step takes an order from completed back to pending
NeverBackToPending ==
    \A o \in DOMAIN db.orders \cap DOMAIN db'.orders :
        db.orders[o].status = "completed" => db'.orders[o].status = "completed"

\* C18: complete_order is idempotent: on an already completed order it
\* succeeds and leaves status, total and line items as they were; and no
\* operation moves an order from completed back to pending.
C18_CompleteOrderIsIdempotent ==
    [][RecompletingChangesNothing /\ NeverBackToPending]_vars

C18_Witness ==
    /\ call.op = "complete_order"
    /\ call.was = "completed"
    /\ call.result = "ok"
    /\ StatusOf(db, call.id) = "completed"
    /\ DetailsOf(db, call.id) # {}

---------------------------------------------------------------------------
(* Properties of the catalog *)

\* C19: delete_category fails with Conflict and leaves the category in place
\* when a product references it, and removes the category when none does.
C19_CategoryDeleteIsGuarded ==
    [][call'.op = "delete_category"
          => IF \E p \in DOMAIN db.products : db.products[p].category_id = call'.id
             THEN /\ call'.result = "Conflict"
                  /\ db' = db
             ELSE /\ call'.result = "ok"
                  /\ call'.id \notin DOMAIN db'.categories
                  /\ \A c \in (DOMAIN db.categories) \ {call'.id} :
                         c \in DOMAIN db'.categories /\ db'.categories[c] = db.categories[c]
                  /\ db'.products = db.products]_vars

C19_Witness ==
    /\ call.op = "delete_category"
    /\ call.result = "ok"
    /\ call.rv = 1
    /\ call.id \notin DOMAIN db.categories
    /\ db.seq_products = MaxProducts

---------------------------------------------------------------------------
(* Properties of the analytics *)

Aggregates(D, u) ==
    [total |-> get_total_spending(D, u),
     monthly |-> get_monthly_spending(D, u),
     weekly |-> get_weekly_spending(D, u),
     by_category |-> get_spending_by_category(D, u),
     top_products |-> get_most_purchased_products(D, u)]

\* C20: the spending aggregates of a user change only in a step in which an
\* order becomes completed or a completed order is deleted; creating a
\* pending order or adding line items never changes them.
C20_AggregatesCountCompletedOnly ==
    [][\A u \in Sessions :
          Aggregates(db', UserOf(u)) # Aggregates(db, UserOf(u))
              => \E o \in DOMAIN db.orders \cup DOMAIN db'.orders :
                     \/ StatusOf(db, o) # "completed" /\ StatusOf(db', o) = "completed"
                     \/ StatusOf(db, o) = "completed" /\ StatusOf(db', o) = "none"]_vars

\* The per-category sums over the completed orders of u placed on a day from
\* start to end, both days included
SpendingWithin(D, u, start, end) ==
    LET lines == {i \in 1..Len(D.order_details) :
                     LET o == D.order_details[i].order_id
                         p == D.order_details[i].product_id
                     IN  /\ o \in DOMAIN D.orders
                         /\ D.orders[o].user_id = u
                         /\ D.orders[o].status = "completed"
                         /\ D.orders[o].order_date >= start
                         /\ D.orders[o].order_date <= end
                         /\ p \in DOMAIN D.products
                         /\ D.products[p].category_id \in DOMAIN D.categories}
    IN  {[category_id |-> c,
          total_spent |-> SumLines(D, {i \in lines :
                                         D.products[D.order_details[i].product_id].category_id = c},
                                   "subtotal")] :
            c \in {D.products[D.order_details[i].product_id].category_id : i \in lines}}

\* C23: get_spending_by_category(user, start, end) sums the line items of the
\* completed orders dated from the start day to the end day, both included,
\* and of no other order.
C23_DateRangeIsInclusive ==
    call.op = "get_spending_by_category"
        => call.rv = SpendingWithin(db, UserOf(call.session), call.id[1], call.id[2])

---------------------------------------------------------------------------
(* Properties of the suggestions *)

\* The number of distinct orders of u that contain a product of category c
OrdersContaining(D, u, c) ==
    Cardinality({D.order_details[i].order_id :
                    i \in {j \in UserCategoryLines(D, u) : CategoryOfLine(D, j) = c}})

\* c is among the five categories found in the most orders of u, however
\* categories found in equally many orders are ranked
AmongTopByOrders(D, u, c) ==
    /\ OrdersContaining(D, u, c) > 0
    /\ Cardinality({e \in DOMAIN D.categories :
                       OrdersContaining(D, u, e) > OrdersContaining(D, u, c)})
           < TopCategoryLimit

\* The products in a completed order of u placed within the last 30 days
BoughtRecently(D, u) ==
    {D.order_details[i].product_id :
        i \in {j \in 1..Len(D.order_details) :
                  /\ D.order_details[j].order_id \in CompletedOrders(D, u)
                  /\ D.orders[D.order_details[j].order_id].order_date
                         >= today - RecentDays}}

\* C21: get_suggested_products(user, limit) returns at most limit products,
\* each of a category among the user's five categories found in the most
\* distinct orders, and none bought by the user in the last 30 days.
C21_SuggestionsComeFromTopCategories ==
    call.op = "get_suggested_products"
        => /\ Cardinality(call.rv) <= call.id
           /\ \A p \in call.rv :
                  /\ p \in DOMAIN db.products
                  /\ AmongTopByOrders(db, UserOf(call.session),
                                      db.products[p].category_id)
                  /\ p \notin BoughtRecently(db, UserOf(call.session))

\* Every product get_suggested_products may return for u
EligiblePool(D, u) ==
    UNION {SuggestionPool(D, u, T) : T \in UserCategories(D, u)}

\* C22: adding a line item to a pending order changes the eligible pool of
\* suggestions of no user.
C22_PendingOrdersDoNotCount ==
    [][(call'.op = "add_order_detail" /\ StatusOf(db, call'.id) = "pending")
          => \A u \in Sessions :
                 EligiblePool(db', UserOf(u)) = EligiblePool(db, UserOf(u))]_vars

---------------------------------------------------------------------------
(* Accounts *)

\* The users a login with this username and password is for
Matching(D, username, password) ==
    {u \in DOMAIN D.users : /\ D.users[u].username = username
                            /\ D.users[u].password_hash = hash_password(password)}

\* C24: authenticate returns the user exactly when a user with that
\* username exists and the password matches the stored hash; every other
\* call ends in the same AuthFailure with the same (empty) value, whether
\* the username is unknown or the password is wrong, and no call changes
\* the database
C24_AuthenticateTellsNothingMore ==
    [][call'.op = "authenticate_user"
          => /\ db' = db
             /\ LET M == Matching(db, call'.id[1], call'.id[2])
                IN  IF M # {}
                    THEN call'.result = "ok" /\ call'.rv \in M
                    ELSE call'.result = "AuthFailure" /\ call'.rv = 0]_vars

\* a wrong password for a username that exists was refused
C24_Witness ==
    /\ call.op = "authenticate_user"
    /\ call.result = "AuthFailure"
    /\ \E u \in DOMAIN db.users :
           /\ db.users[u].username = call.id[1]
           /\ db.users[u].password_hash # hash_password(call.id[2])

\* No two rows carry the same username, the same email or the same
\* category name
NamesAreDistinct(D) ==
    /\ \A u, v \in DOMAIN D.users :
           u # v => /\ D.users[u].username # D.users[v].username
                    /\ D.users[u].email # D.users[v].email
    /\ \A c, d \in DOMAIN D.categories :
           c # d => D.categories[c].category_name # D.categories[d].category_name

\* A create that met the name (or the email) it was given ends in Conflict
\* and leaves the database as it was
DuplicateIsConflict ==
    /\ (call'.op = "create_user"
          /\ \E u \in DOMAIN db.users : \/ db.users[u].username = call'.id[1]
                                        \/ db.users[u].email = call'.id[2])
       => call'.result = "Conflict" /\ db' = db
    /\ (call'.op = "create_category" /\ CategoriesNamed(db, call'.id) # {})
       => call'.result = "Conflict" /\ db' = db

\* C25: creating a user with a username or an email that exists, or a
\* category with a name that exists, fails with Conflict and adds no row;
\* usernames, emails and category names stay pairwise distinct, whichever
\* session creates and after update_category
C25_NamesStayDistinct ==
    [][DuplicateIsConflict /\ NamesAreDistinct(db')]_vars

\* two sessions have created rows, and a create of a name that exists has
\* just been refused
C25_Witness ==
    /\ call.op \in {"create_user", "create_category"}
    /\ call.result = "Conflict"
    /\ Cardinality(DOMAIN db.users) > 1
    /\ Cardinality(DOMAIN db.categories) > 1

---------------------------------------------------------------------------
(* Shopping lists after conversion *)

InactiveList(D, l) == l \in DOMAIN D.shopping_lists /\ ~D.shopping_lists[l].is_active

\* The items of list l with their products and quantities
ListContents(D, l) ==
    {<<i, D.shopping_list_items[i].product_id, D.shopping_list_items[i].quantity>> :
        i \in ItemsOf(D, l)}

\* C26: once a list is inactive, addItem on it is not accepted, its items
\* and their quantities never change again, and it never becomes active
\* again
C26_InactiveListIsReadOnly ==
    [][\A l \in ListIds :
          InactiveList(db, l)
              => /\ (call'.op = "add_item_to_shopping_list" /\ call'.id = l)
                        => call'.result # "ok"
                 /\ l \in DOMAIN db'.shopping_lists
                        => /\ InactiveList(db', l)
                           /\ ListContents(db', l) = ListContents(db, l)]_vars

\* Between D and E only the is_purchased flag of item i differs, and it is
\* flipped
OnlyFlagFlipped(D, E, i) ==
    /\ DOMAIN E.shopping_list_items = DOMAIN D.shopping_list_items
    /\ \A j \in DOMAIN D.shopping_list_items :
           IF j = i
           THEN /\ E.shopping_list_items[j].is_purchased = ~D.shopping_list_items[j].is_purchased
                /\ E.shopping_list_items[j].quantity = D.shopping_list_items[j].quantity
                /\ E.shopping_list_items[j].product_id = D.shopping_list_items[j].product_id
                /\ E.shopping_list_items[j].list_id = D.shopping_list_items[j].list_id
           ELSE E.shopping_list_items[j] = D.shopping_list_items[j]
    /\ E.shopping_lists = D.shopping_lists
    /\ E.orders = D.orders
    /\ E.order_details = D.order_details
    /\ E.products = D.products

\* C27: togglePurchased flips the is_purchased flag of that item and
\* nothing else (its quantity and product, the other items, the lists and
\* the orders stay), and a second toggle of the item gives the database
\* back as it was before the first
C27_ToggleFlipsOneFlag ==
    [][(call'.op = "toggle_shopping_list_item"
           /\ call'.id \in DOMAIN db.shopping_list_items)
          => /\ OnlyFlagFlipped(db, db', call'.id)
             /\ toggle_shopping_list_item(db', call'.id).db = db]_vars

\* an item of a list of two has been toggled and toggled back
C27_Witness ==
    /\ call.op = "toggle_shopping_list_item"
    /\ call.rv = 1
    /\ ~db.shopping_list_items[call.id].is_purchased
    /\ Len(db.shopping_list_items) > 1

---------------------------------------------------------------------------
(* Seeding *)

\* C28: seeding changes nothing when a category exists, a seeding that
\* fails part-way (the demo username or email is taken) leaves none of its
\* categories and products behind, and a second seeding after any seeding
\* changes nothing
C28_SeedingIsIdempotent ==
    [][call'.op = "insert_sample_data"
          => /\ DOMAIN db.categories # {} => db' = db
             /\ call'.result # "ok" => db' = db
             /\ call'.result = "ok" => insert_sample_data(db').db = db']_vars

\* a seeding of an empty catalog has failed on the demo user
C28_Witness ==
    /\ call.op = "insert_sample_data"
    /\ call.result = "StorageFailure"
    /\ DOMAIN db.categories = {}
    /\ DOMAIN db.products = {}

---------------------------------------------------------------------------
(* Connections *)

\* C29: a session that is executing no function holds no open connection,
\* whether its last call returned or failed, a conversion that failed inside
\* its add_order_detail included
C29_ConnectionsAreReleased ==
    \A s \in Sessions : pc[s] = "idle" => local[s].conns = 0

\* a conversion has failed inside its add_order_detail, where it held two
\* connections, and holds none
C29_Witness ==
    \E s \in Sessions :
        /\ pc[s] = "idle"
        /\ local[s].op = "convert_shopping_list_to_order"
        /\ local[s].result = "NotFound"
        /\ local[s].order_id # 0
        /\ local[s].conns = 0

---------------------------------------------------------------------------
(* Inventory *)

\* No quantity is negative, an item at quantity 0 is out of stock and not
\* low in stock, and no item is both
StockIsConsistent(D) ==
    /\ \A i \in DOMAIN D.inventory : D.inventory[i].quantity >= 0
    /\ \A u \in Sessions :
           /\ get_low_stock_items(D, UserOf(u)) \cap get_out_of_stock_items(D, UserOf(u)) = {}
           /\ \A i \in DOMAIN D.inventory :
                  (D.inventory[i].user_id = UserOf(u) /\ D.inventory[i].quantity = 0)
                      => /\ i \in get_out_of_stock_items(D, UserOf(u))
                         /\ i \notin get_low_stock_items(D, UserOf(u))

\* useItem(i, amount) on a row that exists: a positive amount leaves the
\* row with the larger of 0 and quantity - amount and changes nothing else,
\* any other amount fails with InvalidArgument and changes nothing
UseClamps(D, E, c) ==
    LET i == c.id[1]
        amount == c.id[2]
        left == D.inventory[i].quantity - amount
    IN  IF amount > 0
        THEN /\ c.result = "ok"
             /\ E = [D EXCEPT !.inventory[i].quantity = IF left > 0 THEN left ELSE 0]
        ELSE /\ c.result = "InvalidArgument"
             /\ E = D

\* C30: inventory quantity is never negative; useItem with a positive
\* amount sets the quantity to max(0, quantity - amount) and keeps the row;
\* an item at quantity 0 is reported out of stock and not low in stock, and
\* no item is both; useItem with amount <= 0 fails with InvalidArgument and
\* leaves the quantity as it was
C30_UseItemClampsAtZero ==
    [][/\ StockIsConsistent(db')
       /\ (call'.op = "use_inventory_item" /\ call'.id[1] \in DOMAIN db.inventory)
              => UseClamps(db, db', call')]_vars

\* more was used than any row holds, and the row is out of stock
C30_Witness ==
    /\ call.op = "use_inventory_item"
    /\ call.id[2] > MaxQuantity
    /\ call.id[1] \in get_out_of_stock_items(db, UserOf(call.session))

---------------------------------------------------------------------------
(* Expiry alerts *)

\* The rows of user u in a result
ItemsIn(result) == {r.inventory_id : r \in result}

\* For user u on day t: no row is in both results; a row that expires on t
\* is expiring soon with 0 days left and is not expired; a row that expired
\* the day before is expired by 1 day and is not expiring soon
AlertsSplitAt(D, u, t, days) ==
    LET expired == get_expired_items(D, u, t)
        expiring == get_expiring_soon(D, u, t, days)
    IN  /\ ItemsIn(expired) \cap ItemsIn(expiring) = {}
        /\ \A i \in DOMAIN D.inventory :
               D.inventory[i].user_id = u =>
                   /\ D.inventory[i].expiry_date = t
                          => /\ [inventory_id |-> i, days_until_expiry |-> 0] \in expiring
                             /\ i \notin ItemsIn(expired)
                   /\ (t > 0 /\ D.inventory[i].expiry_date = t - 1)
                          => /\ [inventory_id |-> i, days_expired |-> 1] \in expired
                             /\ i \notin ItemsIn(expiring)

\* C31: on every day, no inventory item is both expired and expiring soon;
\* an item expiring today is expiring soon with daysUntilExpiry = 0 and not
\* expired; an item that expired yesterday is expired with daysExpired = 1
\* and not expiring soon
C31_ExpiryAlertsSplitAtToday ==
    \A u \in Sessions, days \in AlertDays : AlertsSplitAt(db, UserOf(u), today, days)

\* the expiring-soon query has returned an item that expires today while
\* another of the user's items expired yesterday
C31_Witness ==
    /\ call.op = "get_expiring_soon"
    /\ \E r \in call.rv : r.days_until_expiry = 0
    /\ \E i \in DOMAIN db.inventory :
           /\ db.inventory[i].user_id = UserOf(call.session)
           /\ db.inventory[i].expiry_date = today - 1

\* C32: addToInventory always inserts a new row and never merges: the rows
\* there were stay as they were and one row is added with the quantity
\* given, so n calls for the same user, product and location leave n rows
C32_AddToInventoryNeverMerges ==
    [][call'.op = "add_to_inventory"
          => /\ call'.rv \notin DOMAIN db.inventory
             /\ DOMAIN db'.inventory = DOMAIN db.inventory \cup {call'.rv}
             /\ \A i \in DOMAIN db.inventory : db'.inventory[i] = db.inventory[i]
             /\ db'.inventory[call'.rv].quantity = call'.id[2]
             /\ Cardinality(BatchesOf(db', UserOf(call'.session), call'.id[1], call'.id[3]))
                  = Cardinality(BatchesOf(db, UserOf(call'.session), call'.id[1], call'.id[3])) + 1]_vars

\* a second batch of a product has been added at the location of the first
C32_Witness ==
    /\ call.op = "add_to_inventory"
    /\ Cardinality(BatchesOf(db, UserOf(call.session), call.id[1], call.id[3])) > 1

---------------------------------------------------------------------------
(* References to products *)

\* Product p is on a line item or on a shopping-list item
ReferencedProduct(D, p) ==
    \/ \E i \in DOMAIN D.order_details : D.order_details[i].product_id = p
    \/ \E i \in DOMAIN D.shopping_list_items : D.shopping_list_items[i].product_id = p

\* Every line item and every list item is of a product that exists, and the
\* line items read for an order are the line items stored for it
ReferencesResolve(D) ==
    /\ \A i \in DOMAIN D.order_details : D.order_details[i].product_id \in DOMAIN D.products
    /\ \A i \in DOMAIN D.shopping_list_items :
           D.shopping_list_items[i].product_id \in DOMAIN D.products
    /\ \A o \in DOMAIN D.orders : get_order_details(D, o) = DetailsOf(D, o)

\* C33: deleting a product that a line item or a list item references fails
\* and removes nothing, so every line item and list item references an
\* existing product and reading an order's line items omits none
C33_ProductDeleteIsRestricted ==
    [][/\ (call'.op = "delete_product" /\ ReferencedProduct(db, call'.id))
              => call'.result # "ok" /\ db' = db
       /\ ReferencesResolve(db')]_vars

\* C34: under any interleaving of create_product, update_product and
\* delete_category, the category of every product exists
C34_ProductsHaveACategory ==
    \A p \in DOMAIN db.products : db.products[p].category_id \in DOMAIN db.categories

---------------------------------------------------------------------------
(* The orders page *)

\* C35: whenever a session's current_order_id is set, it is the id of an
\* order that exists and is pending, whichever buttons of the New Order tab
\* and of the Order History tab were pressed, and after logout
C35_CurrentOrderIsPending ==
    \A s \in Sessions :
        session_state[s].current_order_id # 0
            => /\ session_state[s].current_order_id \in DOMAIN db.orders
               /\ db.orders[session_state[s].current_order_id].status = "pending"

---------------------------------------------------------------------------
(* Agreement of the spending aggregates *)

\* The sum of total_spent over the rows of a result
RECURSIVE SumSpent(_)
SumSpent(rows) ==
    IF rows = {}
    THEN 0
    ELSE LET r == CHOOSE r \in rows : TRUE
         IN  r.total_spent + SumSpent(rows \ {r})

\* C36: for every user, the total_spent of spendingByCategory with no date
\* bounds sums to the total_spent of totalSpending, and so does the
\* total_spent of the monthlySpending rows with no year filter
C36_AggregatesAgree ==
    \A u \in Sessions :
        /\ SumSpent(get_spending_by_category(db, UserOf(u)))
             = get_total_spending(db, UserOf(u)).total_spent
        /\ SumSpent(get_monthly_spending(db, UserOf(u)))
             = get_total_spending(db, UserOf(u)).total_spent

---------------------------------------------------------------------------
(* Ownership *)

\* C37: a conversion of a list that belongs to another user than the
\* caller fails, creates no order and leaves that list active
C37_ConvertRespectsOwnership ==
    [][(/\ IsConvert(call')
        /\ call'.id \in DOMAIN db.shopping_lists
        /\ db.shopping_lists[call'.id].user_id # UserOf(call'.session))
           => /\ call'.result # "ok"
              /\ db'.orders = db.orders
              /\ ActiveList(db, call'.id) => ActiveList(db', call'.id)]_vars

\* What user u reads: the orders, the shopping lists, the total, the
\* monthly and the weekly spending
UserReads(D, u) ==
    <<get_user_orders(D, u), get_user_shopping_lists(D, u), get_total_spending(D, u),
      get_monthly_spending(D, u), get_weekly_spending(D, u)>>

\* Order o, or list l, is there and belongs to another user than u
OrderOfAnother(D, u, o) == o \in DOMAIN D.orders /\ D.orders[o].user_id # u
ListOfAnother(D, u, l) ==
    l \in DOMAIN D.shopping_lists /\ D.shopping_lists[l].user_id # u

\* The database without the orders, line items, lists and list items that
\* belong to other users than u
WithoutOthers(D, u) ==
    LET IsKeptLine(d) == ~OrderOfAnother(D, u, d.order_id)
        IsKeptItem(i) == ~ListOfAnother(D, u, i.list_id)
    IN  [D EXCEPT
            !.orders = [o \in {o \in DOMAIN D.orders : ~OrderOfAnother(D, u, o)} |->
                           D.orders[o]],
            !.order_details = SelectSeq(D.order_details, IsKeptLine),
            !.shopping_lists = [l \in {l \in DOMAIN D.shopping_lists :
                                          ~ListOfAnother(D, u, l)} |->
                                   D.shopping_lists[l]],
            !.shopping_list_items = SelectSeq(D.shopping_list_items, IsKeptItem)]

\* C38: what a user reads (orders, lists, total, monthly and weekly
\* spending) is what the user would read with every order, line item and
\* list of the other users removed, so it is the same in any two states
\* that differ only in what other users own
C38_ReadsAreIsolated ==
    \A u \in Sessions : UserReads(db, UserOf(u)) = UserReads(WithoutOthers(db, UserOf(u)), UserOf(u))

\* each of two users has an order of their own with a line item
C38_Witness ==
    \A u \in Sessions :
        \E o \in DOMAIN db.orders :
            /\ db.orders[o].user_id = UserOf(u)
            /\ db.orders[o].total_amount > 0
            /\ DetailsOf(db, o) # {}

\* C39: create_order returns an id that no order holds and that is above
\* every id given out before, and the order it creates is pending with total
\* 0 and no line item attributed to it
C39_NewOrderIsFresh ==
    [][(call'.op = "create_order" /\ call'.result = "ok" /\ call' # call)
          => /\ call'.rv \notin DOMAIN db.orders
             /\ call'.rv > db.seq_orders
             /\ call'.rv \in DOMAIN db'.orders
             /\ db'.orders[call'.rv].status = "pending"
             /\ db'.orders[call'.rv].total_amount = 0
             /\ DetailsOf(db', call'.rv) = {}]_vars

====
